---- MODULE Spec2Model ----
(***************************************************************************)
(* A model of oddments' combine layer (oddments/pandas/combine.py) with    *)
(* the index helpers (oddments/pandas/indexing) and the uniqueness check   *)
(* (oddments/pandas/dupes.py) it calls.                                    *)
(*                                                                         *)
(* A pandas object is a record                                             *)
(*     [cols |-> column labels, idx |-> index level names,                 *)
(*      rows |-> sequence of [ix |-> index labels, v |-> cells]]           *)
(* Cells and index labels are integers; NaN is the missing value.  The     *)
(* result of a call is an outcome [st, site, val]: st is "ok" or the name  *)
(* of the exception raised, site the place that raised it.                 *)
(***************************************************************************)
EXTENDS Integers, Sequences, FiniteSets, TLC

\* ---------------------------------------------------------------- bounds
\* Rows per input object.
MaxRows == 2
\* Cell values of the inputs are 1..MaxVal.
MaxVal == 2
\* Objects passed to one call.
MaxObjs == 3
\* Elements of a sequence handed to trim_na.
MaxLen == 7
\* The sizes left and right of the windows of iter_window are 0..MaxWindow.
MaxWindow == 3

\* ------------------------------------------------------------ primitives
\* Python's None (an unnamed index level, an omitted value).
None == "<None>"
\* A keyword argument that was not passed.
Absent == "<absent>"
\* pandas' missing value, distinct from every input cell.
NaN == 0 - 1

Ok(v) == [st |-> "ok", site |-> "", val |-> v]
Raise(exc, where) == [st |-> exc, site |-> where, val |-> None]

\* Go on with the value of an outcome, unless it is an exception: the
\* statement after a call that may raise.
Then(r, f(_)) == IF r.st = "ok" THEN f(r.val) ELSE r

Range(s) == {s[i] : i \in DOMAIN s}

\* list.index: the first position of x in s.
IndexOf(s, x) == CHOOSE i \in DOMAIN s : s[i] = x /\ \A j \in 1..(i - 1) : s[j] # x

\* The subsequence of s at the positions satisfying keep.
SelectAt(s, keep(_)) ==
    LET acc[i \in 0..Len(s)] ==
            IF i = 0 THEN <<>>
            ELSE IF keep(i) THEN Append(acc[i - 1], s[i]) ELSE acc[i - 1]
    IN  acc[Len(s)]

\* The concatenation of f(s[1]), ..., f(s[n]).
FlatMap(s, f(_)) ==
    LET acc[i \in 0..Len(s)] == IF i = 0 THEN <<>> ELSE acc[i - 1] \o f(s[i])
    IN  acc[Len(s)]

\* Column labels and index names of the model, in Python's string order.
NameOrder == <<"_merge", "a", "a_x", "a_y", "b", "b_x", "b_y", "c", "i", "j",
               "k", "k_x", "k_y", "name", "x", "y">>

\* sorted(set(value)) on a list of names.
SortedSet(names) == SelectAt(NameOrder, LAMBDA i : NameOrder[i] \in Range(names))

\* pd.RangeIndex(len): row i is labelled i - 1.
WithRangeIndex(rows) == [i \in DOMAIN rows |-> [ix |-> <<i - 1>>, v |-> rows[i].v]]

Tbl(cols, idx, rows) == [cols |-> cols, idx |-> idx, rows |-> rows]

\* The cell of a row under the first column labelled name.
Cell(df, row, name) == row.v[IndexOf(df.cols, name)]

\* df[subset]: for each listed label, in the order listed, every column that
\* carries it.
Project(df, subset) ==
    LET Pick(s) == FlatMap(subset, LAMBDA n : SelectAt(s, LAMBDA i : df.cols[i] = n))
    IN  Tbl(Pick(df.cols), df.idx,
            [r \in DOMAIN df.rows |-> [ix |-> df.rows[r].ix, v |-> Pick(df.rows[r].v)]])

\* DataFrame.reset_index(): the index levels become the leading columns and
\* the index becomes the default one; pandas refuses to insert a level whose
\* name is already a column label.
ResetIndex(df) ==
    IF \E n \in Range(df.idx) : n \in Range(df.cols)
    THEN Raise("ValueError", "reset_index")
    ELSE Ok(Tbl(df.idx \o df.cols, <<None>>,
                WithRangeIndex([r \in DOMAIN df.rows |->
                    [ix |-> <<>>, v |-> df.rows[r].ix \o df.rows[r].v]])))

\* set_index that leaves the index as it is.
SetIndexKeepsIndex(df, names) == Ok(df)

\* DataFrame.set_index(names): the named columns leave the columns and become
\* the index levels; KeyError when one of them is not a column.
SetIndex(df, names) ==
    IF \E n \in Range(names) : n \notin Range(df.cols)
    THEN Raise("KeyError", "set_index")
    ELSE LET keep(i) == df.cols[i] \notin Range(names)
         IN  Ok(Tbl(SelectAt(df.cols, keep), names,
                    [r \in DOMAIN df.rows |->
                        [ix |-> [l \in DOMAIN names |-> Cell(df, df.rows[r], names[l])],
                         v |-> SelectAt(df.rows[r].v, keep)]]))

\* --------------------------------------------------- pandas: merge, concat
\* NaN sorts after every value.
CellLess(a, b) == IF a = NaN THEN FALSE ELSE IF b = NaN THEN TRUE ELSE a < b

\* Lexicographic order of key tuples.
KeyLess(p, q) ==
    \E i \in DOMAIN p :
        /\ i \in DOMAIN q
        /\ CellLess(p[i], q[i])
        /\ \A j \in 1..(i - 1) : p[j] = q[j]

\* A stable sort of merged rows by their join key.
SortByKey(rows) ==
    LET Insert(sorted, r) ==
            LET n == Cardinality({i \in DOMAIN sorted : ~KeyLess(r.key, sorted[i].key)})
            IN  SubSeq(sorted, 1, n) \o <<r>> \o SubSeq(sorted, n + 1, Len(sorted))
        acc[i \in 0..Len(rows)] == IF i = 0 THEN <<>> ELSE Insert(acc[i - 1], rows[i])
    IN  acc[Len(rows)]

\* DataFrame.merge(right, how, left_on, right_on, indicator) and, with
\* by_index, DataFrame.merge(right, how, left_index=True, right_index=True).
\* Key i of the left is paired with key i of the right.  A key pair with one
\* label gives one output column; any other label found on both sides is
\* suffixed _x / _y.  Rows without a partner are filled with NaN.
PdMerge(left, right, how, left_on, right_on, indicator, by_index) ==
    LET same == IF by_index THEN {}
                ELSE {left_on[i] : i \in {j \in DOMAIN left_on : left_on[j] = right_on[j]}}
        rkeep(i) == right.cols[i] \notin same
        rcols == SelectAt(right.cols, rkeep)
        overlap == Range(left.cols) \cap Range(rcols)
        Suffixed(cols, sfx) ==
            [i \in DOMAIN cols |-> IF cols[i] \in overlap THEN cols[i] \o sfx ELSE cols[i]]
        outcols == Suffixed(left.cols, "_x") \o Suffixed(rcols, "_y")
                   \o (IF indicator THEN <<"_merge">> ELSE <<>>)
        lkey(r) == IF by_index THEN r.ix
                   ELSE [i \in DOMAIN left_on |-> Cell(left, r, left_on[i])]
        rkey(r) == IF by_index THEN r.ix
                   ELSE [i \in DOMAIN right_on |-> Cell(right, r, right_on[i])]
        Tag(t) == IF indicator THEN <<t>> ELSE <<>>
        Both(l, r) ==
            [ix |-> l.ix, key |-> lkey(l), matched |-> TRUE,
             v |-> l.v \o SelectAt(r.v, rkeep) \o Tag("both")]
        LeftOnly(l) ==
            [ix |-> l.ix, key |-> lkey(l), matched |-> FALSE,
             v |-> l.v \o [i \in DOMAIN rcols |-> NaN] \o Tag("left_only")]
        RightOnly(r) ==
            [ix |-> r.ix, key |-> rkey(r), matched |-> FALSE,
             v |-> [j \in DOMAIN left.cols |->
                        IF left.cols[j] \in same THEN Cell(right, r, left.cols[j]) ELSE NaN]
                   \o SelectAt(r.v, rkeep) \o Tag("right_only")]
        RMatches(l) == SelectSeq(right.rows, LAMBDA r : rkey(r) = lkey(l))
        LMatches(r) == SelectSeq(left.rows, LAMBDA l : lkey(l) = rkey(r))
        FromLeft(l) ==
            LET m == RMatches(l)
            IN  IF m = <<>> THEN <<LeftOnly(l)>> ELSE [i \in DOMAIN m |-> Both(l, m[i])]
        FromRight(r) ==
            LET m == LMatches(r)
            IN  IF m = <<>> THEN <<RightOnly(r)>> ELSE [i \in DOMAIN m |-> Both(m[i], r)]
        RightRest(r) == IF LMatches(r) = <<>> THEN <<RightOnly(r)>> ELSE <<>>
        leftRows == FlatMap(left.rows, FromLeft)
        joined ==
            CASE how = "left" -> leftRows
              [] how = "inner" -> SelectSeq(leftRows, LAMBDA m : m.matched)
              [] how = "right" -> FlatMap(right.rows, FromRight)
              [] OTHER -> SortByKey(leftRows \o FlatMap(right.rows, RightRest))
        rows == [i \in DOMAIN joined |-> [ix |-> joined[i].ix, v |-> joined[i].v]]
    IN  IF how \notin {"left", "right", "inner", "outer"}
        THEN Raise("ValueError", "pandas.merge")
        ELSE IF ~by_index /\ Len(left_on) # Len(right_on)
        THEN Raise("ValueError", "pandas.merge")
        ELSE IF ~by_index /\ (\/ \E n \in Range(left_on) : n \notin Range(left.cols)
                              \/ \E n \in Range(right_on) : n \notin Range(right.cols))
        THEN Raise("KeyError", "pandas.merge")
        ELSE IF indicator /\ "_merge" \in Range(left.cols) \cup Range(right.cols)
        THEN Raise("ValueError", "pandas.merge")
        ELSE IF by_index
        THEN Ok(Tbl(outcols,
                    IF left.idx = right.idx THEN left.idx
                    ELSE [l \in DOMAIN left.idx |-> None],
                    rows))
        ELSE Ok(Tbl(outcols, <<None>>, WithRangeIndex(rows)))

\* The elements of s in the order of their first appearance.
Distinct(s) == SelectAt(s, LAMBDA i : \A j \in 1..(i - 1) : s[j] # s[i])

\* The labels pandas gives to columns it renumbers: the integers 0, 1, ...,
\* written as strings.
Renumbered == <<"0", "1", "2", "3", "4", "5", "6", "7", "8", "9">>

\* The index names of a concatenation: the common names, or None where the
\* objects disagree.
ConcatNames(os) ==
    IF \A p \in DOMAIN os : os[p].idx = os[1].idx THEN os[1].idx
    ELSE [l \in DOMAIN os[1].idx |-> None]

\* pd.concat(objs, axis=0, join=join, ignore_index=ignore_index) on objects
\* with as many index levels each: the rows are stacked; the columns are the
\* union ('outer') or the intersection ('inner') of the objects' labels in
\* the order of their first appearance, missing cells NaN; objects whose
\* columns differ cannot be aligned when one of them repeats a label.
ConcatRows(os, join, ignore_index) ==
    LET aligned == \A p \in DOMAIN os : os[p].cols = os[1].cols
        all == FlatMap(os, LAMBDA o : o.cols)
        outcols == IF aligned THEN os[1].cols
                   ELSE IF join = "outer" THEN Distinct(all)
                   ELSE SelectAt(os[1].cols,
                                 LAMBDA i : \A p \in DOMAIN os : os[1].cols[i] \in Range(os[p].cols))
        Row(o, r) ==
            [ix |-> r.ix,
             v |-> IF aligned THEN r.v
                   ELSE [c \in DOMAIN outcols |->
                            IF outcols[c] \in Range(o.cols) THEN Cell(o, r, outcols[c])
                            ELSE NaN]]
        rows == FlatMap(os, LAMBDA o : [r \in DOMAIN o.rows |-> Row(o, o.rows[r])])
    IN  IF ~aligned /\ \E p \in DOMAIN os : \E i, j \in DOMAIN os[p].cols :
                            i < j /\ os[p].cols[i] = os[p].cols[j]
        THEN Raise("InvalidIndexError", "pandas.concat")
        ELSE IF ignore_index THEN Ok(Tbl(outcols, <<None>>, WithRangeIndex(rows)))
        ELSE Ok(Tbl(outcols, ConcatNames(os), rows))

\* pd.concat(objs, axis=1, join=join, ignore_index=ignore_index): the columns
\* are put side by side, renumbered with ignore_index; the rows are aligned
\* on the index labels, their union ('outer') or intersection ('inner') in
\* the order of first appearance, which needs unique labels unless all the
\* indexes are equal.
ConcatColumns(os, join, ignore_index) ==
    LET Labels(o) == [r \in DOMAIN o.rows |-> o.rows[r].ix]
        aligned == \A p \in DOMAIN os : Labels(os[p]) = Labels(os[1])
        all == FlatMap(os, Labels)
        labels == IF aligned THEN Labels(os[1])
                  ELSE IF join = "outer" THEN Distinct(all)
                  ELSE SelectAt(Labels(os[1]),
                                LAMBDA i : \A p \in DOMAIN os :
                                    Labels(os[1])[i] \in Range(Labels(os[p])))
        Part(o, i) ==
            IF aligned THEN o.rows[i].v
            ELSE IF labels[i] \in Range(Labels(o))
            THEN o.rows[IndexOf(Labels(o), labels[i])].v
            ELSE [c \in DOMAIN o.cols |-> NaN]
        cols == FlatMap(os, LAMBDA o : o.cols)
        rows == [i \in DOMAIN labels |->
                    [ix |-> labels[i], v |-> FlatMap(os, LAMBDA o : Part(o, i))]]
    IN  IF ~aligned /\ \E p \in DOMAIN os : \E i, j \in DOMAIN os[p].rows :
                            i < j /\ os[p].rows[i].ix = os[p].rows[j].ix
        THEN Raise("InvalidIndexError", "pandas.concat")
        ELSE Ok(Tbl(IF ignore_index THEN [c \in DOMAIN cols |-> Renumbered[c]] ELSE cols,
                    ConcatNames(os), rows))

\* pd.concat(objs, axis=axis, join=join, ignore_index=ignore_index); the
\* axis is 0 or 1, written "0" and "1", or one of its names.
PdConcat(os, axis, join, ignore_index) ==
    IF join \notin {"inner", "outer"} THEN Raise("ValueError", "pandas.concat")
    ELSE IF axis \in {"0", "index"} THEN ConcatRows(os, join, ignore_index)
    ELSE IF axis \in {"1", "columns"} THEN ConcatColumns(os, join, ignore_index)
    ELSE Raise("ValueError", "pandas.concat")

\* ------------------------------------------------------------ validation
\* A Python value handed to validate_value: its kind ("none", "str", "list",
\* "bool", "int") and, for a string or a list, its elements.
PyNone == [kind |-> "none", items |-> <<>>]
PyStr(n) == [kind |-> "str", items |-> IF n = "" THEN <<>> ELSE <<n>>]
PyList(names) == [kind |-> "list", items |-> names]
PyOther(k) == [kind |-> k, items |-> <<>>]
\* A name as a Python value: None, an int label, or a string.
PyName(n) ==
    IF n = None THEN PyNone
    ELSE IF n \in Range(Renumbered) THEN PyOther("int")
    ELSE PyStr(n)

\* validate_value without its check of the length.
ValidateValueAnyLength(value, types, none_ok, empty_ok) ==
    IF none_ok /\ value.kind = "none" THEN "ok"
    ELSE IF value.kind \notin types THEN "TypeError"
    ELSE "ok"

\* validate_value(value, types, none_ok, empty_ok): "ok" or the exception.
ValidateValue(value, types, none_ok, empty_ok) ==
    IF none_ok /\ value.kind = "none" THEN "ok"
    ELSE IF value.kind \notin types THEN "TypeError"
    ELSE IF ~empty_ok /\ Len(value.items) = 0 THEN "ValueError"
    ELSE "ok"

\* The first element of s, in order, that is not "ok"; "ok" if there is none.
FirstError(s) ==
    IF \A i \in DOMAIN s : s[i] = "ok" THEN "ok"
    ELSE s[CHOOSE i \in DOMAIN s : s[i] # "ok" /\ \A j \in 1..(i - 1) : s[j] = "ok"]

\* ensure_list(value)
EnsureList(value) == value.names

\* get_index_names that returns the names without validating them.
GetIndexNamesAsFound(obj, simplify, drop_none) ==
    LET names == obj.idx
        all_none == \A i \in DOMAIN names : names[i] = None
    IN  IF simplify /\ drop_none THEN Raise("ValueError", "get_index_names")
        ELSE IF Len(names) = 0 THEN Raise("ValueError", "get_index_names")
        ELSE IF all_none /\ drop_none THEN Ok([scalar |-> FALSE, names |-> <<>>])
        ELSE IF simplify /\ Len(names) = 1 THEN Ok([scalar |-> TRUE, names |-> names])
        ELSE Ok([scalar |-> FALSE, names |-> names])

\* -------------------------------------------------------------- indexing
\* get_index_names(obj, simplify, drop_none).  The value is
\* [scalar, names]: scalar says a bare name (or None) is returned rather than
\* a list, names lists what is returned.
GetIndexNames(obj, simplify, drop_none) ==
    LET names == obj.idx
        all_none == \A i \in DOMAIN names : names[i] = None
        checks == [i \in DOMAIN names |->
                      ValidateValue(PyName(names[i]), {"str"}, FALSE, FALSE)]
    IN  IF simplify /\ drop_none THEN Raise("ValueError", "get_index_names")
        ELSE IF Len(names) = 0 THEN Raise("ValueError", "get_index_names")
        ELSE IF all_none /\ drop_none THEN Ok([scalar |-> FALSE, names |-> <<>>])
        ELSE IF ~all_none /\ FirstError(checks) # "ok"
        THEN Raise(FirstError(checks), "get_index_names")
        ELSE IF simplify /\ Len(names) = 1 THEN Ok([scalar |-> TRUE, names |-> names])
        ELSE Ok([scalar |-> FALSE, names |-> names])

\* has_named_index(obj)
HasNamedIndex(obj) ==
    Then(GetIndexNames(obj, FALSE, TRUE), LAMBDA n : Ok(Len(n.names) > 0))

\* has_default_index(obj, ignore_name)
HasDefaultIndex(obj, ignore_name) ==
    Then(GetIndexNames(obj, FALSE, FALSE), LAMBDA n :
        IF Len(n.names) > 1 \/ (~ignore_name /\ n.names[1] # None)
        THEN Ok(FALSE)
        ELSE Ok(\A r \in DOMAIN obj.rows : obj.rows[r].ix = <<r - 1>>))

\* A check that, with none_ok, compares the names of the named objects only.
VerifyNamedIndexNames(os, has_expected, expected, none_ok) ==
    LET Named(p) == \E l \in DOMAIN os[p].idx : os[p].idx[l] # None
        Check(p) ==
            Then(GetIndexNames(os[p], FALSE, FALSE), LAMBDA n :
                IF ~(has_expected \/ none_ok) /\ ~Named(p)
                THEN Raise("ValueError", "verify_index_names: unnamed")
                ELSE IF has_expected /\ n.names # EnsureList(expected)
                THEN Raise("ValueError", "verify_index_names: expected")
                ELSE IF \E q \in 1..(p - 1) : Named(p) /\ Named(q) /\ n.names # os[q].idx
                THEN Raise("ValueError", "verify_index_names: previous")
                ELSE Ok(None))
        failed == {p \in DOMAIN os : Check(p).st # "ok"}
    IN  IF failed = {} THEN Ok(None)
        ELSE Check(CHOOSE p \in failed : \A q \in failed : p <= q)

\* A check that compares the names with the expected ones only, never with
\* the previous object's.
VerifyExpectedIndexNames(os, has_expected, expected, none_ok) ==
    LET Check(p) ==
            Then(GetIndexNames(os[p], FALSE, FALSE), LAMBDA n :
                IF has_expected /\ n.names # EnsureList(expected)
                THEN Raise("ValueError", "verify_index_names: expected")
                ELSE Ok(None))
        failed == {p \in DOMAIN os : Check(p).st # "ok"}
    IN  IF failed = {} THEN Ok(None)
        ELSE Check(CHOOSE p \in failed : \A q \in failed : p <= q)

\* verify_index_names(objs, expected, none_ok); has_expected says that
\* 'expected' was passed.  The objects are checked in order and the first
\* failure is raised.
VerifyIndexNames(os, has_expected, expected, none_ok) ==
    LET Check(p) ==
            Then(GetIndexNames(os[p], FALSE, FALSE), LAMBDA n :
                IF ~(has_expected \/ none_ok) /\ ~HasNamedIndex(os[p]).val
                THEN Raise("ValueError", "verify_index_names: unnamed")
                ELSE IF has_expected /\ n.names # EnsureList(expected)
                THEN Raise("ValueError", "verify_index_names: expected")
                ELSE IF p > 1 /\ n.names # os[p - 1].idx
                THEN Raise("ValueError", "verify_index_names: previous")
                ELSE Ok(None))
        checked == [p \in DOMAIN os |-> Check(p)]
        sts == [p \in DOMAIN os |-> checked[p].st]
    IN  IF FirstError(sts) = "ok" THEN Ok(None)
        ELSE checked[CHOOSE p \in DOMAIN os :
                        sts[p] # "ok" /\ \A q \in 1..(p - 1) : sts[q] = "ok"]

\* verify_index_values(obj): no NaN among the index labels.
VerifyIndexValues(obj) ==
    IF \E r \in DOMAIN obj.rows : \E l \in DOMAIN obj.rows[r].ix : obj.rows[r].ix[l] = NaN
    THEN Raise("ValueError", "verify_index_values")
    ELSE Ok(None)

\* ------------------------------------------------------------ uniqueness
\* A bool handed where a bool, a string or a list is accepted.
PyBool(b) == [kind |-> "bool", items |-> <<b>>]

\* check(obj, msg) of verify_unique: some value occurs more than once.
HasDupes(s) == \E i, j \in DOMAIN s : i < j /\ s[i] = s[j]

\* DataFrame.empty
IsEmpty(obj) == Len(obj.rows) = 0 \/ Len(obj.cols) = 0

\* The last check of verify_unique, on the values of the selected columns
\* (dupes.py lines 216-225).
VerifyRows(rows, dropna) ==
    LET HasNaN(r) == \E c \in DOMAIN r.v : r.v[c] = NaN
        Values(kept) ==
            IF HasDupes([r \in DOMAIN kept |-> kept[r].v])
            THEN Raise("ValueError", "verify_unique: values")
            ELSE Ok(None)
    IN  IF dropna THEN Values(SelectSeq(rows, LAMBDA r : ~HasNaN(r))) ELSE Values(rows)

\* verify_unique from its selection of the columns on (dupes.py lines 200-225).
VerifyValues(obj, column_values, subset, include_index, dropna) ==
    IF IsEmpty(obj) THEN Ok(None)
    ELSE IF column_values.kind = "bool" /\ ~column_values.items[1] THEN Ok(None)
    ELSE IF column_values.kind \notin {"bool", "str", "list"}
    THEN Raise("TypeError", "verify_unique: column_values")
    ELSE IF \E k \in Range(subset) : k = None
    THEN Raise("TypeError", "verify_unique: column")
    ELSE IF \E k \in Range(subset) : k \notin Range(obj.cols)
    THEN Raise("KeyError", "verify_unique: subset")
    ELSE Then(IF include_index THEN ResetIndex(Project(obj, subset))
              ELSE Ok(Project(obj, subset)),
              LAMBDA flat : VerifyRows(flat.rows, dropna))

\* Checks of the labels without the one for index names among the column
\* labels.
VerifyLabelsApart(obj, idx, column_names, index_names, index_values) ==
    IF None \in Range(obj.cols)
    THEN Raise("ValueError", "verify_unique: null column name")
    ELSE IF column_names /\ HasDupes(obj.cols)
    THEN Raise("ValueError", "verify_unique: column names")
    ELSE IF index_names /\ idx.st # "ok" THEN idx
    ELSE IF index_names /\ idx.val.names # <<>> /\ HasDupes(idx.val.names)
    THEN Raise("ValueError", "verify_unique: index names")
    ELSE Ok(None)

\* verify_unique up to the index values (dupes.py lines 157-198); idx is
\* get_index_names(df, drop_none=True).
VerifyLabels(obj, idx, column_names, index_names, index_values) ==
    IF None \in Range(obj.cols)
    THEN Raise("ValueError", "verify_unique: null column name")
    ELSE IF column_names /\ HasDupes(obj.cols)
    THEN Raise("ValueError", "verify_unique: column names")
    ELSE IF index_names /\ idx.st # "ok" THEN idx
    ELSE IF index_names /\ idx.val.names # <<>> /\ HasDupes(idx.val.names)
    THEN Raise("ValueError", "verify_unique: index names")
    ELSE IF index_names /\ idx.val.names # <<>> /\ HasDupes(idx.val.names \o obj.cols)
    THEN Raise("ValueError", "verify_unique: index and column names")
    ELSE IF ~index_values THEN Ok(None)
    ELSE Then(VerifyIndexValues(obj), LAMBDA none :
              IF HasDupes([r \in DOMAIN obj.rows |-> obj.rows[r].ix])
              THEN Raise("ValueError", "verify_unique: index values")
              ELSE Ok(None))

\* The body of verify_unique, after include_index has been resolved.
VerifyUniqueBody(obj, column_names, column_values, index_names, index_values, include_index, dropna) ==
    Then(VerifyLabels(obj, GetIndexNames(obj, FALSE, TRUE),
                      column_names, index_names, index_values),
         LAMBDA none :
            VerifyValues(obj, column_values,
                         IF column_values.kind = "bool" THEN obj.cols
                         ELSE column_values.items,
                         include_index, dropna))

\* A resolution that refuses every unnamed index, the default one included.
ResolveNamedOnly(obj, include_index) ==
    IF ~include_index THEN Ok(FALSE)
    ELSE Then(HasNamedIndex(obj), LAMBDA named :
              IF named THEN Ok(TRUE)
              ELSE Raise("NotImplementedError", "_resolve_include_index"))

\* _resolve_include_index: include_index is turned off on a default index
\* and refused on an unnamed index that is not the default.
ResolveIncludeIndex(obj, include_index) ==
    IF ~include_index THEN Ok(FALSE)
    ELSE Then(HasDefaultIndex(obj, TRUE), LAMBDA dflt :
              IF dflt THEN Ok(FALSE)
              ELSE Then(HasNamedIndex(obj), LAMBDA named :
                        IF named THEN Ok(TRUE)
                        ELSE Raise("NotImplementedError", "_resolve_include_index")))

\* verify_unique as decorated.
VerifyUnique(obj, column_names, column_values, index_names, index_values, include_index, dropna) ==
    Then(ResolveIncludeIndex(obj, include_index), LAMBDA value :
         VerifyUniqueBody(obj, column_names, column_values, index_names,
                          index_values, value, dropna))

\* ------------------------------------------------------------- combine
PyAbsent == [kind |-> "absent", items |-> <<>>]

\* bool(value) of an optional flag.
Truthy(flag) == flag = "True"

\* The key parameter a caller's list or string is turned into
\* (combine.py lines 65-69).
NormKey(value) ==
    IF value.kind = "str" THEN PyList(value.items) ELSE PyList(SortedSet(value.items))

\* _prep_merge_params(kwargs, _join)
PrepMergeParams(kw, join_) ==
    LET KeyCheck(v) ==
            IF v.kind = "absent" THEN "ok"
            ELSE IF join_ THEN "TypeError"
            ELSE IF ValidateValue(v, {"list", "str"}, TRUE, FALSE) # "ok"
            THEN ValidateValue(v, {"list", "str"}, TRUE, FALSE)
            ELSE IF v.kind = "none" THEN "TypeError"
            ELSE "ok"
        keyErr == FirstError(<<KeyCheck(kw.on), KeyCheck(kw.left_on), KeyCheck(kw.right_on)>>)
        Norm(v) == IF v.kind = "absent" THEN v ELSE NormKey(v)
        on == Norm(kw.on)
        Given(v) == v.kind # "absent"
        Side(v) == IF Given(on) THEN on ELSE Norm(v)
        sideErr(v) == IF Given(on) THEN Given(v) ELSE ~Given(v)
    IN  IF kw.left_index # Absent \/ kw.right_index # Absent
        THEN Raise("TypeError", "_prep_merge_params: index flag")
        ELSE IF keyErr # "ok" THEN Raise(keyErr, "_prep_merge_params: key value")
        ELSE IF join_
        THEN Ok([kw EXCEPT !.how = IF @ = Absent THEN "left" ELSE @,
                           !.left_index = "True", !.right_index = "True"])
        ELSE IF sideErr(kw.left_on) \/ sideErr(kw.right_on)
        THEN Raise("TypeError", "_prep_merge_params: key combination")
        ELSE Ok([kw EXCEPT !.how = IF @ = Absent THEN "left" ELSE @,
                           !.on = PyAbsent,
                           !.left_on = Side(kw.left_on),
                           !.right_on = Side(kw.right_on)])

\* DataFrame.drop(columns=names, errors='ignore')
DropCols(obj, names) ==
    LET keep(i) == obj.cols[i] \notin names
    IN  Tbl(SelectAt(obj.cols, keep), obj.idx,
            [r \in DOMAIN obj.rows |->
                [ix |-> obj.rows[r].ix, v |-> SelectAt(obj.rows[r].v, keep)]])

\* pd.Series(names, name='name')
NameSeries(names) ==
    Tbl(<<"name">>, <<None>>,
        WithRangeIndex([i \in DOMAIN names |-> [ix |-> <<>>, v |-> <<names[i]>>]]))

\* The column labels _merge checks for collisions (combine.py lines 121-139).
MergedNames(left, right, join_, p) ==
    LET shared_keys == Range(p.left_on.items) \cap Range(p.right_on.items)
    IN  left.cols \o
        (IF join_ THEN right.cols
         ELSE SelectAt(right.cols, LAMBDA i : right.cols[i] \notin shared_keys))

\* An outcome with its exception, if any, attributed to the given place.
At(r, where) == IF r.st = "ok" THEN r ELSE Raise(r.st, where)

\* A collision check that looks at the left object's labels only.
VerifyLeftNames(left, right, join_, p) ==
    At(VerifyUnique(NameSeries(left.cols), TRUE, PyBool(TRUE), TRUE, FALSE, FALSE, FALSE),
       "_merge: column collision")

\* The collision check of _merge (combine.py lines 141-145).
VerifyMergedNames(left, right, join_, p) ==
    At(VerifyUnique(NameSeries(MergedNames(left, right, join_, p)),
                    TRUE, PyBool(TRUE), TRUE, FALSE, FALSE, FALSE),
       "_merge: column collision")

\* A filter that keeps every row that has a left part.
LeftRows(m) ==
    [m EXCEPT !.rows = SelectSeq(m.rows, LAMBDA r : Cell(m, r, "_merge") # "right_only")]

\* df[(df['_merge'] == 'left_only')]
LeftOnlyRows(m) ==
    [m EXCEPT !.rows = SelectSeq(m.rows, LAMBDA r : Cell(m, r, "_merge") = "left_only")]

\* _merge dropping every right key column, shared or not.
AfterMergeDropsRightOn(m, join_, p) ==
    DropCols(IF p.how # "anti" THEN m
             ELSE IF Truthy(p.indicator) THEN LeftOnlyRows(m)
             ELSE DropCols(LeftOnlyRows(m), {"_merge"}),
             IF join_ THEN {} ELSE Range(p.right_on.items))

\* _merge after the underlying merge (combine.py lines 150-161).
AfterMerge(m, join_, p) ==
    DropCols(IF p.how # "anti" THEN m
             ELSE IF Truthy(p.indicator) THEN LeftOnlyRows(m)
             ELSE DropCols(LeftOnlyRows(m), {"_merge"}),
             IF join_ THEN {} ELSE Range(p.right_on.items) \ Range(p.left_on.items))

\* _merge from its collision check on (combine.py lines 121-161); right is
\* the right object as the anti-join has cut it.
MergeChecked(left, right, join_, p) ==
    Then(VerifyMergedNames(left, right, join_, p), LAMBDA none :
         Then(PdMerge(left, right,
                      IF p.how = "anti" THEN "left" ELSE p.how,
                      IF join_ THEN <<>> ELSE p.left_on.items,
                      IF join_ THEN <<>> ELSE p.right_on.items,
                      p.how = "anti" \/ Truthy(p.indicator),
                      join_),
              LAMBDA m : Ok(AfterMerge(m, join_, p))))

\* The columns an anti-join keeps of the right object (combine.py line 119).
AntiCols(join_, p) == IF join_ THEN <<>> ELSE p.right_on.items

\* _merge(left, right, _join, **params)
MergePair(left, right, join_, p) ==
    IF p.how # "anti" THEN MergeChecked(left, right, join_, p)
    ELSE IF \E n \in Range(AntiCols(join_, p)) : n \notin Range(right.cols)
    THEN Raise("KeyError", "_merge: anti keys")
    ELSE MergeChecked(left, Project(right, AntiCols(join_, p)), join_, p)

\* ------------------------------------------------------------------ state
\* op, objs, kwargs: the call (the function, its objects, its keyword
\* arguments).  pc: "call" before the function runs, "merge" when join has
\* delegated, "fold" inside merge's loop, "done" after the return or raise.
\* params, restore_index, index_names, dupes_ok, df, pos: the locals of merge.
\* merged: how often the underlying DataFrame.merge has been called.
\* res: the outcome of the call, once pc = "done".
\* heap: heap.objs are the caller's objects as they stand now (objs keeps them
\* as they were passed); heap.ret says which of them the returned object is,
\* 0 for an object the call created.
\* start, yielded: the local start of iter_window, whose loop index is pos,
\* and what the generator has yielded so far.
VARIABLES op, objs, kwargs, pc, params, restore_index, index_names, dupes_ok,
          df, pos, merged, res, heap, start, yielded

vars == <<op, objs, kwargs, pc, params, restore_index, index_names, dupes_ok,
          df, pos, merged, res, heap, start, yielded>>

locals == <<params, restore_index, index_names, dupes_ok, df, pos, merged, start, yielded>>

NoTable == Tbl(<<>>, <<None>>, <<>>)
NoNames == [scalar |-> TRUE, names |-> <<None>>]
NoParams == [how |-> Absent]
NoFlags == [left |-> Absent, right |-> Absent]
Pending == [st |-> "pending", site |-> "", val |-> None]

\* The state before the call runs.
Start(o, os, kw) ==
    /\ op = o
    /\ objs = os
    /\ kwargs = kw
    /\ pc = "call"
    /\ params = NoParams
    /\ restore_index = FALSE
    /\ index_names = NoNames
    /\ dupes_ok = NoFlags
    /\ df = NoTable
    /\ pos = 0
    /\ merged = 0
    /\ res = Pending
    /\ heap = [objs |-> os, ret |-> 0]
    /\ start = 0 - 1
    /\ yielded = <<>>

Finish(outcome) ==
    /\ pc' = "done"
    /\ res' = outcome

\* A name of the code bound to an object: at says which of the caller's
\* objects it is (0: an object the call created), val is the object's value,
\* objs are the caller's objects as they stand.
Bound(h, i, v) == [objs |-> h, at |-> i, val |-> v]

\* A copy that is the object itself.
CopyShallow(b) == b

\* obj.copy(deep=True): a new object of the same value.
CopyDeep(b) == [b EXCEPT !.at = 0]

\* A method that returns a new object of value v (rename, dropna, merge).
Fresh(b, v) == [b EXCEPT !.at = 0, !.val = v]

\* An assignment to an attribute of the object or a method called with
\* inplace=True: the object takes the value v, and so does the caller's
\* object when this is one.
InPlace(b, v) ==
    [objs |-> IF b.at = 0 THEN b.objs ELSE [b.objs EXCEPT ![b.at] = v],
     at |-> b.at, val |-> v]

\* The heap when the call returns the object b is bound to, and when it
\* returns no object (None, or an exception).
Returned(b) == [objs |-> b.objs, ret |-> b.at]
NoObject(b) == [objs |-> b.objs, ret |-> 0]
Handed(b, outcome) == IF outcome.st = "ok" THEN Returned(b) ELSE NoObject(b)

\* Go on with the value of an outcome, or with otherwise after an exception.
Else(r, f(_), otherwise) == IF r.st = "ok" THEN f(r.val) ELSE otherwise

\* join(objs, **kwargs) up to its call of merge (combine.py lines 261-282).
JoinEntry ==
    /\ op = "join"
    /\ pc = "call"
    /\ LET v == IF Len(objs) = 0 THEN Raise("ValueError", "validate_pandas_objs")
                ELSE VerifyIndexNames(objs, FALSE, NoNames, TRUE)
       IN  IF v.st # "ok" THEN Finish(v) ELSE pc' = "merge" /\ res' = res
    /\ UNCHANGED <<op, objs, kwargs, locals, heap>>

\* merge(objs, _join, **kwargs) up to its loop (combine.py lines 200-205).
MergeEntry ==
    /\ \/ op = "merge" /\ pc = "call"
       \/ op = "join" /\ pc = "merge"
    /\ LET join_ == op = "join"
           p == PrepMergeParams(kwargs, join_)
           named == IF join_ THEN Ok(FALSE) ELSE HasNamedIndex(objs[1])
           names == GetIndexNames(objs[1], TRUE, FALSE)
           err == IF p.st # "ok" THEN p
                  ELSE IF Len(objs) = 0 THEN Raise("IndexError", "merge: objs[0]")
                  ELSE IF named.st # "ok" THEN named
                  ELSE names
       IN  IF err.st # "ok"
           THEN Finish(err) /\ UNCHANGED locals
           ELSE /\ pc' = "fold"
                /\ params' = p.val
                /\ restore_index' = named.val
                /\ index_names' = names.val
                /\ UNCHANGED <<dupes_ok, df, pos, merged, res, start, yielded>>
    /\ UNCHANGED <<op, objs, kwargs, heap>>

\* The object of one pass, copied and with a named index reset
\* (combine.py lines 210-218).
Prepared(obj, join_) ==
    IF join_ THEN Ok(obj)
    ELSE Then(HasNamedIndex(obj), LAMBDA named :
              IF named THEN ResetIndex(obj) ELSE Ok(obj))

\* A tolerance that is True whatever was passed.
ToleranceAlways(current, flag, join_) == "True"

\* A tolerance that defaults to True whatever the caller.
ToleranceLenient(current, flag, join_) ==
    IF current # Absent THEN current
    ELSE IF flag # Absent THEN flag
    ELSE "True"

\* A tolerance that defaults to False whatever the caller.
ToleranceStrict(current, flag, join_) ==
    IF current # Absent THEN current
    ELSE IF flag # Absent THEN flag
    ELSE "False"

\* dupes_ok[label] (combine.py lines 220-227): current is the entry, Absent
\* until the label's first pass; flag is the caller's '{label}_dupes_ok'.
Tolerance(current, flag, join_) ==
    IF current # Absent THEN current
    ELSE IF flag # Absent THEN flag
    ELSE IF join_ THEN "False" ELSE "True"

\* The checks and the merge of one pass (combine.py lines 210-252): left is
\* the result so far, p the parameters without the popped flag.
FoldPass(left, obj0, n, join_, p, join_keys, tolerant, unsupported) ==
    Then(Prepared(obj0, join_), LAMBDA obj :
         IF unsupported THEN Raise("NotImplementedError", "merge: dupes_ok")
         ELSE Then(VerifyUnique(obj, TRUE,
                                IF join_ \/ Truthy(tolerant) THEN PyBool(FALSE)
                                ELSE PyList(join_keys.items),
                                TRUE, join_ /\ ~Truthy(tolerant), FALSE, FALSE),
                   LAMBDA none :
                       IF n = 0 THEN Ok(obj) ELSE MergePair(left, obj, join_, p)))

\* The effect of one pass, given its outcome.
FoldApply(out, label, p, tolerant) ==
    /\ merged' = IF pos > 0 /\ (out.st = "ok" \/ out.site = "pandas.merge")
                 THEN merged + 1 ELSE merged
    /\ IF out.st # "ok"
       THEN Finish(out) /\ UNCHANGED <<params, dupes_ok, df, pos>>
       ELSE /\ params' = p
            /\ dupes_ok' = [dupes_ok EXCEPT ![label] = tolerant]
            /\ df' = out.val
            /\ pos' = pos + 1
            /\ UNCHANGED <<pc, res>>

\* The caller's objects after one pass, and the object df is bound to
\* (combine.py lines 210-218 and 246-252): obj is copied, the copy's named
\* index is reset in place, and df is the copy on the first pass, a new
\* object on the later ones.
PassBound(own, join_) ==
    IF join_ THEN own
    ELSE Else(Prepared(own.val, join_),
              LAMBDA flat : IF flat # own.val THEN InPlace(own, flat) ELSE own, own)

PassHeap(h, n, obj0, join_) ==
    IF n = 0 THEN Returned(PassBound(CopyDeep(Bound(h, n + 1, obj0)), join_))
    ELSE NoObject(PassBound(CopyDeep(Bound(h, n + 1, obj0)), join_))

\* One pass of merge's loop over objs (combine.py lines 207-252).
FoldStep ==
    /\ pc = "fold"
    /\ pos < Len(objs)
    /\ LET join_ == op = "join"
           label == IF pos = 0 THEN "left" ELSE "right"
           join_keys == IF pos = 0 THEN params.left_on ELSE params.right_on
           flag == IF pos = 0 THEN params.left_dupes_ok ELSE params.right_dupes_ok
           tolerant == Tolerance(dupes_ok[label], flag, join_)
           popped == IF dupes_ok[label] # Absent THEN params
                     ELSE IF pos = 0 THEN [params EXCEPT !.left_dupes_ok = Absent]
                     ELSE [params EXCEPT !.right_dupes_ok = Absent]
       IN  FoldApply(FoldPass(df, objs[pos + 1], pos, join_, popped, join_keys, tolerant,
                              dupes_ok[label] = Absent /\ join_ /\ flag # Absent),
                     label, popped, tolerant)
    /\ heap' = PassHeap(heap.objs, pos, objs[pos + 1], op = "join")
    /\ UNCHANGED <<op, objs, kwargs, restore_index, index_names, start, yielded>>

\* merge after its loop (combine.py lines 254-258).
MergeExit ==
    /\ pc = "fold"
    /\ pos = Len(objs)
    /\ LET restored == IF restore_index THEN SetIndex(df, index_names.names) ELSE Ok(df)
           verified == VerifyIndexNames(<<restored.val>>, TRUE, index_names, TRUE)
       IN  Finish(IF restored.st # "ok" THEN restored
                  ELSE IF verified.st # "ok" THEN verified
                  ELSE Ok(restored.val))
    /\ heap' = IF ~restore_index THEN heap
               ELSE Else(SetIndex(df, index_names.names),
                         LAMBDA restored :
                             Returned(InPlace(Bound(heap.objs, heap.ret, df), restored)),
                         heap)
    /\ UNCHANGED <<op, objs, kwargs, locals>>

\* verify_index_names(objs, none_ok=...), called on its own
\* (validation.py lines 8-58).
VerifyIndexNamesCall ==
    /\ op = "verify_index_names"
    /\ pc = "call"
    /\ Finish(IF Len(objs) = 0 THEN Raise("ValueError", "validate_pandas_objs")
              ELSE VerifyIndexNames(objs, FALSE, NoNames, kwargs.none_ok # "False"))
    /\ UNCHANGED <<op, objs, kwargs, locals, heap>>

\* Parameters that keep the index whenever the caller does not say.
ConcatParamsKeepIndex(kw, named) ==
    [axis |-> IF kw.axis = Absent THEN "0" ELSE kw.axis,
     join |-> IF kw.how # Absent THEN kw.how
              ELSE IF kw.join # Absent THEN kw.join ELSE "outer",
     ignore_index |-> IF kw.ignore_index \in {Absent, None} THEN FALSE
                      ELSE Truthy(kw.ignore_index)]

\* The parameters concat hands to pd.concat (combine.py lines 312-335);
\* named says that the first object has a named index.
ConcatParams(kw, named) ==
    LET axis == IF kw.axis = Absent THEN "0" ELSE kw.axis
    IN  [axis |-> axis,
         join |-> IF kw.how # Absent THEN kw.how
                  ELSE IF kw.join # Absent THEN kw.join ELSE "outer",
         ignore_index |->
             IF kw.ignore_index \in {Absent, None}
             THEN (IF axis = "0" THEN ~named ELSE FALSE)
             ELSE Truthy(kw.ignore_index)]

\* concat from its call of pd.concat on (combine.py lines 337-343).
ConcatChecked(os, p, recorded) ==
    Then(PdConcat(os, p.axis, p.join, p.ignore_index), LAMBDA out :
         IF p.ignore_index THEN Ok(out)
         ELSE Then(VerifyIndexNames(<<out>>, TRUE, recorded, TRUE),
                   LAMBDA none : Ok(out)))

\* concat(objs, **kwargs) (combine.py lines 286-343); pd.concat returns a
\* new object and changes none of objs.
ConcatCall ==
    /\ op = "concat"
    /\ pc = "call"
    /\ LET early ==
               IF Len(objs) = 0 THEN Raise("ValueError", "validate_pandas_objs")
               ELSE IF kwargs.how # Absent /\ kwargs.join # Absent
               THEN Raise("ValueError", "concat: how and join")
               ELSE Then(VerifyIndexNames(objs, FALSE, NoNames, TRUE), LAMBDA none :
                         HasNamedIndex(objs[1]))
       IN  IF early.st # "ok"
           THEN Finish(early) /\ UNCHANGED locals
           ELSE /\ params' = ConcatParams(kwargs, early.val)
                /\ index_names' = [scalar |-> FALSE, names |-> objs[1].idx]
                /\ Finish(ConcatChecked(objs, ConcatParams(kwargs, early.val),
                                        [scalar |-> FALSE, names |-> objs[1].idx]))
                /\ UNCHANGED <<restore_index, dupes_ok, df, pos, merged, start, yielded>>
    /\ heap' = [heap EXCEPT !.ret = 0]
    /\ UNCHANGED <<op, objs, kwargs>>

\* ----------------------------------------------------------------- inputs
\* Key values of an object's rows: every sequence of at most MaxRows values.
KeySeqs == UNION {[1..n -> 1..MaxVal] : n \in 0..MaxRows}

\* Columns that carry the row's key value; every other column carries the
\* row's number.
KeyCols == {"k", "x"}

\* An object with the given labels whose row r has key value keys[r].  A
\* single unnamed level is the default index; any other index is labelled
\* with the key values.
Frame(cols, idx, keys) ==
    Tbl(cols, idx,
        [r \in DOMAIN keys |->
            [ix |-> IF idx = <<None>> THEN <<r - 1>> ELSE [l \in DOMAIN idx |-> keys[r]],
             v |-> [c \in DOMAIN cols |-> IF cols[c] \in KeyCols THEN keys[r] ELSE r]]])

\* An object whose index labels are its key values, whatever the index names.
Indexed(cols, idx, keys) ==
    Tbl(cols, idx,
        [r \in DOMAIN keys |->
            [ix |-> [l \in DOMAIN idx |-> keys[r]],
             v |-> [c \in DOMAIN cols |-> r]]])

\* Rows 1..MaxRows with distinct keys while MaxVal allows.
Ascending == [r \in 1..MaxRows |-> IF r < MaxVal THEN r ELSE MaxVal]
\* Rows that all carry the key MaxVal.
Repeated(n) == [r \in 1..n |-> MaxVal]

MergeKw(how, on, left_on, right_on, indicator, left_dupes_ok, right_dupes_ok) ==
    [how |-> how, left_index |-> Absent, right_index |-> Absent,
     on |-> on, left_on |-> left_on, right_on |-> right_on, indicator |-> indicator,
     left_dupes_ok |-> left_dupes_ok, right_dupes_ok |-> right_dupes_ok]

Hows == {Absent, "left", "inner", "outer", "right", "anti"}

\* The ways the join keys are passed: [on, left_on, right_on].
KeyChoices ==
    { <<PyStr("k"), PyAbsent, PyAbsent>>,
      <<PyAbsent, PyStr("k"), PyStr("x")>>,
      <<PyAbsent, PyList(<<"a", "k">>), PyList(<<"k", "x">>)>> }

\* how and indicator as passed: every how without indicator, and the
\* anti-join with it.
HowChoices == (Hows \X {Absent}) \cup {<<"anti", "True">>, <<"left", "True">>}

LeftShapes ==
    ({<<"k", "a">>, <<"k", "a", "a">>}
        \X {<<None>>, <<"i">>, <<"a">>, <<"i", "j">>, <<None, None>>, <<"i", None>>})
    \cup {<<<<"a", "b">>, <<None>>>>, <<<<"a">>, <<"k">>>>}

RightShapes ==
    {<<"k", "b">>, <<"k", "a">>, <<"x", "b">>, <<"k", "x", "b">>, <<"k">>}
        \X {<<None>>, <<"i">>, <<"j">>}

LastShapes == {<<"k", "c">>, <<"k", "b">>, <<"x", "c">>} \X {<<None>>}

\* Key-based merges over objects of many shapes.
ShapeObjs ==
    LET lefts == {Frame(s[1], s[2], Ascending) : s \in LeftShapes}
        Rights(rows) == {Frame(s[1], s[2], Repeated(n)) : s \in RightShapes, n \in rows}
        lasts == {Frame(s[1], s[2], Ascending) : s \in LastShapes}
    IN  {<<l>> : l \in lefts}
        \cup {<<l, r>> : l \in lefts, r \in Rights({1, MaxRows})}
        \cup (IF MaxObjs < 3 THEN {}
              ELSE {<<l, r, t>> : l \in lefts, r \in Rights({1}), t \in lasts})

InitShapes ==
    \E os \in ShapeObjs, how \in HowChoices, keys \in KeyChoices :
        Start("merge", os,
              MergeKw(how[1], keys[1], keys[2], keys[3], how[2], Absent, Absent))

\* Key sequences in non-decreasing order.
SortedKeySeqs == {s \in KeySeqs : \A i \in 1..(Len(s) - 1) : s[i] <= s[i + 1]}

\* The labels of the second column of the objects after the second.
TailLabels == <<"c", "i", "j", "x", "y">>

\* The objects after the second: the odd ones with one row, or with MaxRows
\* rows of one key when repeating; the even ones with distinct keys.
TailObjs(n, repeating) ==
    [t \in 1..n |-> Frame(<<"k", TailLabels[t]>>, <<None>>,
                          IF t % 2 = 0 THEN Ascending
                          ELSE IF repeating THEN Repeated(MaxRows) ELSE Repeated(1))]

\* Key-based merges on k over objects with every choice of key values.
RowObjs ==
    LET lefts == {Frame(<<"k", "a">>, <<None>>, keys) : keys \in SortedKeySeqs}
                 \cup {Frame(<<"k", "a">>, <<"i">>, keys) :
                          keys \in {Ascending, Repeated(MaxRows)}}
        rights == {Frame(<<"k", "b">>, <<None>>, keys) : keys \in KeySeqs}
    IN  {<<l, r>> \o TailObjs(n, repeating) :
            l \in lefts, r \in rights, n \in {0, MaxObjs - 2}, repeating \in BOOLEAN}

\* The duplicate flags as passed: [left_dupes_ok, right_dupes_ok].
DupesChoices ==
    ({Absent} \X {"True", "False", None}) \cup {<<"False", Absent>>}

\* how, indicator and the duplicate flags as passed: every how without
\* flags, every choice of flags with the default how, and the anti-join
\* that tolerates no repeated key on the right.
RowChoices ==
    {<<how[1], how[2], Absent, Absent>> : how \in HowChoices}
    \cup {<<Absent, Absent, dupes[1], dupes[2]>> : dupes \in DupesChoices}
    \cup {<<"anti", Absent, Absent, "False">>}

InitRows ==
    \E os \in RowObjs, c \in RowChoices :
        Start("merge", os, MergeKw(c[1], PyStr("k"), PyAbsent, PyAbsent, c[2], c[3], c[4]))

\* Key values that fall: MaxVal first, then 1.
Descending == [r \in 1..MaxRows |-> IF r = 1 THEN MaxVal ELSE 1]

\* Anti-joins on k of an object whose keys fall with objects of every
\* choice of key values.
AntiObjs ==
    LET lefts == {Frame(<<"k", "a">>, idx, Descending) : idx \in {<<None>>, <<"i">>}}
        rights == {Frame(<<"k", "b">>, <<None>>, keys) : keys \in KeySeqs}
    IN  {<<l, r>> \o TailObjs(n, repeating) :
            l \in lefts, r \in rights, n \in {0, MaxObjs - 2}, repeating \in BOOLEAN}

InitAnti ==
    \E os \in AntiObjs :
        Start("merge", os,
              MergeKw("anti", PyStr("k"), PyAbsent, PyAbsent, Absent, Absent, Absent))

InitMerge == InitShapes \/ InitRows \/ InitAnti

NextMerge == MergeEntry \/ FoldStep \/ MergeExit

SpecMerge == InitMerge /\ [][NextMerge]_vars

\* ---------------------------------------------------- inputs: key parameters
\* The values passed for on, left_on and right_on: not passed, None, empty,
\* of a wrong type, a name, and lists in and out of order, with a repeat.
KeyVals ==
    {PyAbsent, PyNone, PyStr(""), PyList(<<>>), PyOther("int"), PyStr("k"),
     PyList(<<"k", "k">>), PyList(<<"b", "a">>), PyList(<<"a", "b">>),
     PyList(<<"x", "y">>)}

\* A table of one row.
OneRow(cols, cells) == Tbl(cols, <<None>>, << [ix |-> <<0>>, v |-> cells] >>)

\* A one-row table on a, b with a one-row table on x, y, with every choice
\* of cells; and a pair of tables that share the column k.
KeyObjs ==
    {<<OneRow(<<"a", "b">>, l), OneRow(<<"x", "y">>, r)>> :
        l \in [1..2 -> 1..MaxVal], r \in [1..2 -> 1..MaxVal]}
    \cup {<<Frame(<<"k", "a">>, <<None>>, Ascending),
            Frame(<<"k", "b">>, <<None>>, Ascending)>>}

InitKeys ==
    \E os \in KeyObjs, how \in {Absent, "inner"}, on \in KeyVals,
       left_on \in KeyVals, right_on \in KeyVals :
        Start("merge", os, MergeKw(how, on, left_on, right_on, Absent, Absent, Absent))

SpecKeys == InitKeys /\ [][NextMerge]_vars

\* ------------------------------------------------- inputs: index-based calls
\* The column of the n-th object of a call.
JoinCols == <<"a", "b", "c", "x", "y">>

\* The index names of the objects: unnamed and named, of one and two levels.
IndexChoices == {<<None>>, <<"i">>, <<"j">>, <<None, None>>, <<"i", "j">>}

\* Lists of up to MaxObjs objects with every choice of index names.
NamedObjs ==
    UNION {{[n \in 1..len |-> Indexed(<<JoinCols[n]>>, idxs[n], Ascending)] :
                idxs \in [1..len -> IndexChoices]} : len \in 0..MaxObjs}

InitNames ==
    \E os \in NamedObjs, none_ok \in {Absent, "True", "False"} :
        Start("verify_index_names", os, [none_ok |-> none_ok])

\* Lists of objects for join: the first two with every choice of index
\* labels, the others with the index names of the first.
JoinObjs ==
    LET firsts == {Indexed(<<"a">>, idx, keys) :
                      idx \in {<<None>>, <<"i">>, <<"i", "j">>}, keys \in SortedKeySeqs}
        seconds == {Indexed(<<"b">>, idx, keys) :
                       idx \in {<<None>>, <<"i">>, <<"j">>, <<"i", "j">>}, keys \in KeySeqs}
        Rest(f, len) == [n \in 1..len |-> Indexed(<<JoinCols[n + 2]>>, f.idx, Ascending)]
    IN  {<<f>> : f \in firsts}
        \cup {<<f, g>> \o Rest(f, len) : f \in firsts, g \in seconds, len \in {0, MaxObjs - 2}}

\* how, on and the duplicate flags as passed to join.
JoinChoices ==
    {MergeKw(how, PyAbsent, PyAbsent, PyAbsent, Absent, Absent, Absent) : how \in Hows}
    \cup {MergeKw(Absent, PyStr("k"), PyAbsent, PyAbsent, Absent, Absent, Absent),
          MergeKw(Absent, PyAbsent, PyAbsent, PyAbsent, Absent, "True", Absent),
          MergeKw(Absent, PyAbsent, PyAbsent, PyAbsent, Absent, Absent, "True")}

InitJoin ==
    \/ InitNames
    \/ \E os \in JoinObjs, kw \in JoinChoices : Start("join", os, kw)

NextJoin == VerifyIndexNamesCall \/ JoinEntry \/ MergeEntry \/ FoldStep \/ MergeExit

SpecJoin == InitJoin /\ [][NextJoin]_vars

\* ----------------------------------------------------- inputs: concat calls
\* The n-th object of a call, with index labels keys; its cells are numbered
\* through the call, so that no two objects share one.
Numbered(n, cols, idx, keys) ==
    Tbl(cols, idx,
        [r \in DOMAIN keys |->
            [ix |-> [l \in DOMAIN idx |-> keys[r]],
             v |-> [c \in DOMAIN cols |-> n * (MaxRows + 1) + r]]])

ConcatCols == {<<"a", "b">>, <<"b", "c">>, <<"a", "a">>}

\* Index names of two levels of which only the first is named.
PartlyNamed == <<"i", None>>

\* Lists of objects for concat: the first with every choice of index names
\* and labels, the second with the names of the first or others, the rest
\* shaped like the first.
ConcatObjs ==
    LET firsts == {Numbered(1, cols, idx, keys) :
                      cols \in ConcatCols, idx \in IndexChoices \cup {PartlyNamed},
                      keys \in SortedKeySeqs}
        Seconds(f) == {Numbered(2, cols, idx, keys) :
                          cols \in ConcatCols, idx \in {f.idx, <<None>>, <<"j">>},
                          keys \in {<<>>, Ascending, Repeated(1)}}
        Rest(f, len) == [n \in 1..len |-> Numbered(n + 2, f.cols, f.idx, Ascending)]
    IN  {<<>>} \cup {<<f>> : f \in firsts}
        \cup UNION {{<<f, g>> \o Rest(f, len) : g \in Seconds(f), len \in 0..(MaxObjs - 2)} :
                        f \in firsts}

ConcatKw(axis, how, join, ignore_index) ==
    [axis |-> axis, how |-> how, join |-> join, ignore_index |-> ignore_index]

\* The keyword arguments of the calls of concat.
ConcatChoices ==
    {ConcatKw(axis, Absent, Absent, ignore) :
        axis \in {Absent, "0", "1", "index"}, ignore \in {Absent, None, "True", "False"}}
    \cup {ConcatKw(axis, "inner", Absent, Absent) : axis \in {Absent, "1"}}
    \cup {ConcatKw(Absent, Absent, "inner", Absent), ConcatKw(Absent, "outer", "inner", Absent),
          ConcatKw(Absent, "left", Absent, Absent), ConcatKw("2", Absent, Absent, Absent)}

InitConcat == \E os \in ConcatObjs, kw \in ConcatChoices : Start("concat", os, kw)

NextConcat == ConcatCall

SpecConcat == InitConcat /\ [][NextConcat]_vars

\* ------------------------------------------- properties: key-based merges
\* A pass of merge's loop that combines the result so far with an object.
MergePass == op = "merge" /\ pc = "fold" /\ pos >= 1 /\ pos < Len(objs)

\* The pass got as far as _merge.
ReachedMerge ==
    \/ pc' = "fold" /\ pos' = pos + 1
    \/ res'.site \in {"_merge: anti keys", "_merge: column collision", "pandas.merge"}

\* The pass returned from _merge.
MergeReturned == pc' = "fold" /\ pos' = pos + 1

\* The labels found among the columns of both tables handed to _merge, the
\* join keys shared by both sides' key lists excepted.
CollidingNames ==
    (Range(df.cols) \cap Range(Prepared(objs[pos + 1], FALSE).val.cols))
        \ (Range(params.left_on.items) \cap Range(params.right_on.items))

Count(s, x) == Cardinality({i \in DOMAIN s : s[i] = x})

\* The column labelled n came through the pass untouched.
Untouched(n) ==
    /\ (n \o "_x") \notin Range(df'.cols)
    /\ (n \o "_y") \notin Range(df'.cols)
    /\ Count(df'.cols, n) = Count(df.cols, n)
    /\ \A r \in Range(df'.rows) : \E l \in Range(df.rows) : Cell(df', r, n) = Cell(df, l, n)

\* C1 as stated: whenever a label other than a shared join key is a column
\* of both tables handed to _merge, the pass raises ValueError without
\* calling the underlying merge, and no pass returns with such a column
\* suffixed or overwritten.
C1_AsStated ==
    [][(MergePass /\ ReachedMerge /\ CollidingNames # {})
           => (res'.st = "ValueError" /\ merged' = merged)]_vars

\* C1 amended: the same for every how but 'anti'; and in every merge, 'anti'
\* included, no pass returns with such a column suffixed or overwritten.
C1_Collision ==
    [][/\ (MergePass /\ ReachedMerge /\ CollidingNames # {} /\ params.how # "anti")
           => (res'.st = "ValueError" /\ res'.site = "_merge: column collision"
               /\ merged' = merged)
       /\ (MergePass /\ MergeReturned) => \A n \in CollidingNames : Untouched(n)]_vars

\* A merge other than an anti-join stopped at its collision check, before
\* the underlying merge was called.
C1_Witness ==
    /\ op = "merge" /\ pc = "done" /\ pos = 1 /\ merged = 0
    /\ params.how = "inner"
    /\ res.st = "ValueError" /\ res.site = "_merge: column collision"
    /\ "a" \in Range(df.cols) /\ "a" \in Range(objs[2].cols)

\* A call of merge on two objects has ended.
PairDone == op = "merge" /\ pc = "done" /\ Len(objs) = 2

\* C2: when merge([A, B], on=k), with any how that combines columns, returns,
\* every column label of A and every label of B outside k is the label of
\* exactly one column of the result.
C2_EveryColumnOnce ==
    (PairDone /\ res.st = "ok" /\ kwargs.on.kind # "absent" /\ kwargs.how # "anti")
        => /\ \A c \in Range(objs[1].cols) : Count(res.val.cols, c) = 1
           /\ \A c \in Range(objs[2].cols) \ Range(kwargs.on.items) :
                  Count(res.val.cols, c) = 1

\* merge([A, B], on='k') has returned A's columns k, a and B's column b.
C2_Witness ==
    /\ PairDone /\ res.st = "ok" /\ merged = 1
    /\ kwargs.on = PyStr("k") /\ kwargs.how = "outer"
    /\ objs[1].cols = <<"k", "a">> /\ objs[2].cols = <<"k", "b">>
    /\ res.val.cols = <<"k", "a", "b">>

\* The rows of A, index levels first, whose key is the key of no row of B.
AntiRows(A, B, keys) ==
    LET Labels(o) == IF o.idx = <<None>> THEN o.cols ELSE o.idx \o o.cols
        Flat(o, r) == IF o.idx = <<None>> THEN r.v ELSE r.ix \o r.v
        Key(o, r) == [i \in DOMAIN keys |-> Flat(o, r)[IndexOf(Labels(o), keys[i])]]
        taken == {Key(B, r) : r \in Range(B.rows)}
        kept == SelectSeq(A.rows, LAMBDA r : Key(A, r) \notin taken)
    IN  [i \in DOMAIN kept |-> Flat(A, kept[i])]

\* C3: when merge([A, B], on=k, how='anti') returns, its rows are, in order,
\* the rows of A whose key matches no row of B, its columns are A's, and it
\* has a '_merge' column, reading 'left_only', exactly when indicator was
\* passed as true.
C3_AntiJoin ==
    (PairDone /\ res.st = "ok" /\ kwargs.on.kind # "absent" /\ kwargs.how = "anti")
        => LET A == objs[1]
               kept == AntiRows(A, objs[2], kwargs.on.items)
               tag == IF kwargs.indicator = "True" THEN <<"left_only">> ELSE <<>>
               Flat(r) == IF A.idx = <<None>> THEN r.v ELSE r.ix \o r.v
           IN  /\ res.val.cols =
                      A.cols \o (IF kwargs.indicator = "True" THEN <<"_merge">> ELSE <<>>)
               /\ res.val.idx = A.idx
               /\ Len(res.val.rows) = Len(kept)
               /\ \A i \in DOMAIN kept : Flat(res.val.rows[i]) = kept[i] \o tag

\* An anti-join without indicator kept one of A's two rows; B repeats the key
\* of the other.
C3_Witness ==
    /\ PairDone /\ res.st = "ok" /\ kwargs.how = "anti" /\ kwargs.indicator = Absent
    /\ kwargs.on = PyStr("k")
    /\ Len(objs[1].rows) = 2 /\ Len(res.val.rows) = 1
    /\ Len(objs[2].rows) = 2 /\ objs[2].rows[1].v[1] = objs[2].rows[2].v[1]
    /\ res.val.cols = <<"k", "a">>

\* C4: a key-based merge that returns, returns a table whose index level
\* names are the leftmost input's, which are the names merge recorded; and
\* when the leftmost input's index is named, the names merge restores from
\* the columns never fail its final comparison with the recorded ones.
C4_IndexRestored ==
    (op = "merge" /\ pc = "done")
        => /\ res.st = "ok"
                  => /\ res.val.idx = objs[1].idx
                     /\ res.val.idx = index_names.names
                     /\ restore_index => Range(objs[1].idx) \cap Range(res.val.cols) = {}
           /\ restore_index => res.site # "verify_index_names: expected"

\* A merge of three objects has returned with the two named index levels of
\* its leftmost input restored.
C4_Witness ==
    /\ op = "merge" /\ pc = "done" /\ res.st = "ok" /\ merged = 2
    /\ objs[1].idx = <<"i", "j">> /\ res.val.idx = <<"i", "j">>
    /\ restore_index

\* Two rows of the object carry the same tuple under the key labels, found
\* among its index levels and columns.
RepeatsKeys(obj, keys) ==
    LET labels == IF obj.idx = <<None>> THEN obj.cols ELSE obj.idx \o obj.cols
        Flat(r) == IF obj.idx = <<None>> THEN r.v ELSE r.ix \o r.v
        Key(r) == [i \in DOMAIN keys |-> Flat(r)[IndexOf(labels, keys[i])]]
    IN  /\ Range(keys) \subseteq Range(labels)
        /\ HasDupes([r \in DOMAIN obj.rows |-> Key(obj.rows[r])])

\* merge is in or past its loop.
InMerge == op = "merge" /\ pc \in {"fold", "done"}

\* No object to the right of the leftmost that repeats a key tuple has been
\* combined.
NoRepeatedKeysCombined ==
    \A n \in 2..pos : ~RepeatsKeys(objs[n], params.right_on.items)

\* C7 as stated: in a key-based merge without a right_dupes_ok flag, no
\* non-leftmost input that repeats a key tuple is ever combined.
C7_AsStated ==
    (InMerge /\ kwargs.right_dupes_ok = Absent) => NoRepeatedKeysCombined

\* C7 amended: without a right_dupes_ok flag the tolerance of the non-leftmost
\* inputs is True and none of them is rejected for repeated keys; with
\* right_dupes_ok passed as False or None, an input that repeats a key tuple
\* is never combined: merge raises ValueError in its pass, before the
\* underlying merge is called for it.
C7_DupesDefault ==
    /\ (InMerge /\ kwargs.right_dupes_ok = Absent)
           => /\ dupes_ok.right \in {Absent, "True"}
              /\ pos >= 1 => res.site # "verify_unique: values"
    /\ (InMerge /\ kwargs.right_dupes_ok \in {"False", None})
           => /\ dupes_ok.right \in {Absent, kwargs.right_dupes_ok}
              /\ NoRepeatedKeysCombined
              /\ (/\ pc = "done" /\ pos >= 1 /\ pos < Len(objs)
                  /\ RepeatsKeys(objs[pos + 1], params.right_on.items))
                     => (/\ res.st = "ValueError"
                         /\ res.site = "verify_unique: values"
                         /\ merged = pos - 1)

\* Without a flag, a right object that repeats a key was combined and
\* multiplied the rows of the left one.
C7_Witness ==
    /\ PairDone /\ res.st = "ok" /\ merged = 1
    /\ kwargs.right_dupes_ok = Absent /\ dupes_ok.right = "True"
    /\ RepeatsKeys(objs[2], <<"k">>)
    /\ Len(res.val.rows) > Len(objs[1].rows)

\* ------------------------------------------- properties: key parameters
\* The call has left _prep_merge_params.
Prepped == op = "merge" /\ pc \in {"fold", "done"}

\* _prep_merge_params raised.
PrepRaised ==
    /\ pc = "done"
    /\ res.site \in {"_prep_merge_params: index flag", "_prep_merge_params: key value",
                     "_prep_merge_params: key combination"}

Passed(v) == v.kind # "absent"

\* 'on' alone, or left_on and right_on without 'on'.
OnAlone == Passed(kwargs.on) /\ ~Passed(kwargs.left_on) /\ ~Passed(kwargs.right_on)
SidesAlone == ~Passed(kwargs.on) /\ Passed(kwargs.left_on) /\ Passed(kwargs.right_on)

\* The parameters hold non-empty left_on and right_on lists and no 'on'.
Normalized ==
    /\ ~PrepRaised
    /\ params.on = PyAbsent
    /\ params.left_on.kind = "list" /\ params.left_on.items # <<>>
    /\ params.right_on.kind = "list" /\ params.right_on.items # <<>>
    /\ OnAlone => params.left_on = params.right_on

\* C5 as stated: the call passes normalization, with non-empty left_on and
\* right_on lists and no 'on', exactly when 'on' alone or left_on and
\* right_on alone were passed; any other combination raises TypeError.
C5_AsStated ==
    Prepped => IF OnAlone \/ SidesAlone THEN Normalized
               ELSE PrepRaised /\ res.st = "TypeError"

\* What the code does with one passed key value before it looks at the
\* combination.
ValueOutcome(v) ==
    IF ~Passed(v) THEN "ok"
    ELSE IF v.kind = "none" \/ v.kind \notin {"str", "list"} THEN "TypeError"
    ELSE IF v.items = <<>> THEN "ValueError"
    ELSE "ok"

\* C5 amended: each of on, left_on, right_on that was passed is validated
\* first, in that order: None or a value that is no str or list raises
\* TypeError, an empty str or list raises ValueError.  When every passed
\* value is a non-empty str or list, the two shapes of the claim are
\* accepted, with non-empty left_on and right_on lists and no 'on', and
\* every other combination raises TypeError.
C5_Normalization ==
    Prepped =>
        LET first == FirstError(<<ValueOutcome(kwargs.on), ValueOutcome(kwargs.left_on),
                                  ValueOutcome(kwargs.right_on)>>)
        IN  IF first # "ok"
            THEN PrepRaised /\ res.st = first /\ res.site = "_prep_merge_params: key value"
            ELSE IF OnAlone \/ SidesAlone THEN Normalized
            ELSE /\ PrepRaised /\ res.st = "TypeError"
                 /\ res.site = "_prep_merge_params: key combination"

\* on=['k', 'k'] alone was accepted and became left_on = right_on = ['k'].
C5_Witness ==
    /\ Prepped /\ pc = "fold"
    /\ kwargs.on = PyList(<<"k", "k">>) /\ OnAlone
    /\ params.left_on = PyList(<<"k">>) /\ params.right_on = PyList(<<"k">>)
    /\ params.on = PyAbsent

\* C6: the key lists handed to the underlying merge are the caller's lists in
\* the caller's order, so that an inner merge of a one-row table on a, b with
\* a one-row table on x, y under left_on=['b','a'], right_on=['x','y'] returns
\* the row exactly when b = x and a = y.
C6_CallerOrder ==
    (Prepped /\ ~PrepRaised /\ kwargs.left_on = PyList(<<"b", "a">>)
        /\ kwargs.right_on = PyList(<<"x", "y">>))
        => /\ params.left_on.items = <<"b", "a">>
           /\ params.right_on.items = <<"x", "y">>
           /\ (pc = "done" /\ res.st = "ok" /\ kwargs.how = "inner")
                  => (Len(res.val.rows) = 1
                        <=> /\ objs[1].rows[1].v[2] = objs[2].rows[1].v[1]
                            /\ objs[1].rows[1].v[1] = objs[2].rows[1].v[2])

\* ------------------------------------------ properties: index-based calls
\* Two rows of the object carry the same index labels.
RepeatsIndex(obj) == HasDupes([r \in DOMAIN obj.rows |-> obj.rows[r].ix])

\* join has entered merge's loop.
InJoinLoop == op = "join" /\ pc \in {"fold", "done"} /\ params # NoParams

NoFlagsPassed == kwargs.left_dupes_ok = Absent /\ kwargs.right_dupes_ok = Absent

\* C8 as stated: a join without duplicate flags never ends in the error
\* raised for repeated index values.
C8_AsStated ==
    (op = "join" /\ NoFlagsPassed) => res.site # "verify_unique: index values"

\* C8 amended: in a join without duplicate flags the tolerance is False for
\* every input: no input whose index repeats a value gets through its pass,
\* and the pass of such an input raises ValueError before the input is
\* combined.
C8_JoinDefault ==
    (InJoinLoop /\ NoFlagsPassed)
        => /\ dupes_ok.left \in {Absent, "False"}
           /\ dupes_ok.right \in {Absent, "False"}
           /\ \A n \in 1..pos : ~RepeatsIndex(objs[n])
           /\ (pc = "done" /\ pos < Len(objs) /\ RepeatsIndex(objs[pos + 1]))
                  => (/\ res.st = "ValueError"
                      /\ res.site = "verify_unique: index values"
                      /\ merged = IF pos = 0 THEN 0 ELSE pos - 1)

\* A join without flags raised for the repeated index values of its second
\* object, before the underlying merge was called.
C8_Witness ==
    /\ InJoinLoop /\ NoFlagsPassed /\ pc = "done"
    /\ Len(objs) >= 2 /\ pos = 1 /\ merged = 0
    /\ RepeatsIndex(objs[2]) /\ ~RepeatsIndex(objs[1])
    /\ res.st = "ValueError" /\ res.site = "verify_unique: index values"

\* A call of verify_index_names on two objects has ended.
NamesDone == op = "verify_index_names" /\ pc = "done" /\ Len(objs) = 2

Unnamed(obj) == \A l \in DOMAIN obj.idx : obj.idx[l] = None

\* One of the two objects has a named index and the other an unnamed one.
MixedPair == Unnamed(objs[1]) # Unnamed(objs[2])

\* C9 as stated: on a pair of one object with a named and one with an
\* unnamed index, verify_index_names returns unless none_ok=False is passed,
\* and raises ValueError when it is.
C9_AsStated ==
    (NamesDone /\ MixedPair)
        => res.st = IF kwargs.none_ok = "False" THEN "ValueError" ELSE "ok"

\* C9 amended: on such a pair verify_index_names raises ValueError whatever
\* none_ok is; with the default none_ok=True it returns exactly for objects
\* whose index names are the same, unnamed ones included, and with
\* none_ok=False exactly for objects with the same names, all named.
C9_SameNames ==
    NamesDone
        => /\ MixedPair => res.st = "ValueError"
           /\ res.st \in {"ok", "ValueError"}
           /\ res.st = "ok"
                  <=> /\ objs[1].idx = objs[2].idx
                      /\ kwargs.none_ok = "False" => ~Unnamed(objs[1])

\* verify_index_names with the default none_ok raised for an object with a
\* named index followed by one with an unnamed index.
C9_Witness ==
    /\ NamesDone /\ kwargs.none_ok = Absent
    /\ objs[1].idx = <<"i">> /\ objs[2].idx = <<None>>
    /\ res.st = "ValueError" /\ res.site = "verify_index_names: previous"

\* ------------------------------------------------------ properties: concat
\* concat([A, B]) along the rows, ignore_index not specified, has ended.
StackedPair ==
    /\ op = "concat" /\ pc = "done" /\ Len(objs) = 2
    /\ kwargs.axis \in {Absent, "0"}
    /\ kwargs.ignore_index \in {Absent, None}

\* The index of the object is named on some levels and unnamed on others.
PartNamed(obj) == ~Unnamed(obj) /\ \E l \in DOMAIN obj.idx : obj.idx[l] = None

\* The two objects can be stacked: their index names are the same, all None
\* or all names, the alignment of the columns is one pandas knows and can
\* carry out.
Stackable ==
    /\ objs[1].idx = objs[2].idx
    /\ ~PartNamed(objs[1])
    /\ ~(kwargs.how # Absent /\ kwargs.join # Absent)
    /\ kwargs.how \in {Absent, "inner", "outer"}
    /\ kwargs.join \in {Absent, "inner", "outer"}
    /\ objs[1].cols = objs[2].cols \/ (~HasDupes(objs[1].cols) /\ ~HasDupes(objs[2].cols))

\* C10: concat([A, B]) with axis=0 and ignore_index not specified returns
\* whenever A and B can be stacked, and what it returns has len(A) + len(B)
\* rows; when A and B have the same named index the result has its names and
\* the labels of A's rows, then B's; when neither index is named,
\* ignore_index is inferred True and the result has the default index.
C10_Stacked ==
    StackedPair
        => LET A == objs[1]
               B == objs[2]
               out == res.val
           IN  /\ Stackable => res.st = "ok"
               /\ res.st = "ok"
                      => /\ Len(out.rows) = Len(A.rows) + Len(B.rows)
                         /\ (~Unnamed(A) /\ A.idx = B.idx)
                                => /\ out.idx = A.idx
                                   /\ ~params.ignore_index
                                   /\ [r \in DOMAIN out.rows |-> out.rows[r].ix]
                                          = [r \in DOMAIN A.rows |-> A.rows[r].ix]
                                            \o [r \in DOMAIN B.rows |-> B.rows[r].ix]
                         /\ (Unnamed(A) /\ Unnamed(B))
                                => /\ params.ignore_index
                                   /\ out.idx = <<None>>
                                   /\ \A r \in DOMAIN out.rows : out.rows[r].ix = <<r - 1>>

\* Two objects with unnamed indexes whose labels are not the default ones
\* were stacked into three rows labelled 0, 1, 2.
C10_Witness ==
    /\ StackedPair /\ res.st = "ok"
    /\ objs[1].idx = <<None>> /\ objs[2].idx = <<None>>
    /\ Len(objs[1].rows) = 2 /\ Len(objs[2].rows) = 1
    /\ objs[1].rows[1].ix # <<0>>
    /\ Len(res.val.rows) = 3 /\ res.val.rows[3].ix = <<2>>
    /\ params.ignore_index

\* A call of concat has ended.
ConcatDone == op = "concat" /\ pc = "done"

\* Two of the objects have different lists of index names.
NamesDiffer == \E p, q \in DOMAIN objs : objs[p].idx # objs[q].idx

\* concat ended before it resolved its parameters, hence before pd.concat.
NotConcatenated == params = NoParams

\* C11 as stated: concat raises ValueError before concatenating whenever two
\* inputs' index-name lists differ, and every result returned with the index
\* preserved has the leftmost input's index names.
C11_AsStated ==
    ConcatDone
        => /\ NamesDiffer => (res.st = "ValueError" /\ NotConcatenated)
           /\ (res.st = "ok" /\ ~params.ignore_index) => res.val.idx = objs[1].idx

\* C11 amended: whenever two inputs' index-name lists differ concat raises
\* before concatenating, ValueError unless an input's index is named on some
\* levels only, which raises TypeError when it is met first; every result
\* returned with the index preserved has the leftmost input's index names.
C11_NamesChecked ==
    ConcatDone
        => /\ NamesDiffer
                  => /\ NotConcatenated
                     /\ res.st \in {"ValueError", "TypeError"}
                     /\ res.st = "TypeError" => \E p \in DOMAIN objs : PartNamed(objs[p])
                     /\ (\E p \in DOMAIN objs : PartNamed(objs[p])
                            /\ \A q \in 2..p : objs[q].idx = objs[q - 1].idx)
                        => (res.st = "TypeError"
                                \/ (kwargs.how # Absent /\ kwargs.join # Absent))
           /\ (res.st = "ok" /\ ~params.ignore_index) => res.val.idx = objs[1].idx

\* concat of an object with index name "i" and one with index name "j"
\* raised ValueError in the comparison of the names, nothing concatenated.
C11_Witness ==
    /\ ConcatDone /\ Len(objs) = 2
    /\ objs[1].idx = <<"i">> /\ objs[2].idx = <<"j">>
    /\ res.st = "ValueError" /\ res.site = "verify_index_names: previous"
    /\ NotConcatenated

\* ================================================================ coercion
\* A model of oddments/pandas/coercion/utils.py.  Python data handed to the
\* coercions is a record with a kind ("int", "none", "list", "dict", "set",
\* "Index") and its items; a Series is [name, idx, rows], each row carrying
\* one cell; a DataFrame is a table as above.  The integer labels pandas
\* gives to unnamed columns are the strings of Renumbered.

\* An int.
PyInt(v) == [kind |-> "int", items |-> <<v>>]

\* A dict with the given keys and values, in insertion order.
PyDict(keys, vals) == [kind |-> "dict", items |-> keys, vals |-> vals]

\* A set; items lists its elements in the order iteration yields them.
PySet(items) == [kind |-> "set", items |-> items]

\* A pd.Index (a MultiIndex when it has several names) with the given labels.
PdIndex(names, labels) == [kind |-> "Index", names |-> names, items |-> labels]

Series(name, idx, rows) == [name |-> name, idx |-> idx, rows |-> rows]

\* type(data)
TypeOf(data) ==
    IF "kind" \in DOMAIN data THEN data.kind
    ELSE IF "name" \in DOMAIN data THEN "Series"
    ELSE "DataFrame"

\* The cell pandas stores for a Python scalar, and the scalar read back from
\* a cell.
CellOf(x) == IF x.kind = "none" THEN NaN ELSE x.items[1]
FromCell(c) == IF c = NaN THEN PyNone ELSE PyInt(c)

\* np.shape(data) of a scalar or a (nested) list: ValueError when the list
\* is jagged.
RECURSIVE NpShape(_)
NpShape(data) ==
    IF data.kind # "list" THEN Ok(<<>>)
    ELSE IF Len(data.items) = 0 THEN Ok(<<0>>)
    ELSE IF \E i \in DOMAIN data.items : NpShape(data.items[i]).st # "ok"
    THEN Raise("ValueError", "numpy.ndim")
    ELSE IF \E i \in DOMAIN data.items : NpShape(data.items[i]).val # NpShape(data.items[1]).val
    THEN Raise("ValueError", "numpy.ndim")
    ELSE Ok(<<Len(data.items)>> \o NpShape(data.items[1]).val)

\* np.ndim(data): the object's own ndim, or that of the array made of it.
NpNdim(data) ==
    IF TypeOf(data) = "Series" THEN Ok(1)
    ELSE IF TypeOf(data) = "DataFrame" THEN Ok(2)
    ELSE Then(NpShape(data), LAMBDA shape : Ok(Len(shape)))

\* The greatest element of a non-empty set of integers.
MaxOf(S) == CHOOSE m \in S : \A n \in S : n <= m

\* _validate_array_like(data)
ValidateArrayLike(data) ==
    IF TypeOf(data) \in {"list", "tuple", "ndarray", "Index"} THEN "ok" ELSE "TypeError"

\* Dimensions that take a dict for as many dimensions as it has entries, at
\* most 2.
DimensionsOfEntries(data) ==
    IF TypeOf(data) = "dict"
    THEN Ok(IF Len(data.items) < 2 THEN Len(data.items) ELSE 2)
    ELSE IF TypeOf(data) \in {"set", "Series"} THEN Ok(1)
    ELSE IF TypeOf(data) = "Index"
    THEN Ok(IF Len(data.names) < 2 THEN Len(data.names) ELSE 2)
    ELSE IF TypeOf(data) = "DataFrame" THEN Ok(2)
    ELSE IF NpShape(data).st = "ok" THEN Ok(Len(NpShape(data).val))
    ELSE Raise("ValueError", "numpy.ndim")

\* _get_data_dimensions(data)
GetDataDimensions(data) ==
    LET Each(x) == NpNdim(PyList(<<x>>))
    IN  IF TypeOf(data) = "dict"
        THEN Ok(IF Len(data.items) <= 1 THEN 1 ELSE 2)
        ELSE IF TypeOf(data) = "set" THEN Ok(1)
        ELSE IF TypeOf(data) = "Index"
        THEN Ok(IF Len(data.names) < 2 THEN Len(data.names) ELSE 2)
        ELSE IF NpNdim(data).st = "ok" THEN NpNdim(data)
        ELSE IF ValidateArrayLike(data) # "ok"
        THEN Raise(ValidateArrayLike(data), "_validate_array_like")
        ELSE IF \E i \in DOMAIN data.items : Each(data.items[i]).st # "ok"
        THEN Raise("ValueError", "numpy.ndim")
        ELSE Ok(MaxOf({Each(data.items[i]).val : i \in DOMAIN data.items}))

\* _apply_default_name that names nothing.
ApplyNoDefaultName(obj, default_name) == Ok(obj)

\* _apply_default_name(obj, default_name)
ApplyDefaultName(obj, default_name) ==
    LET valid == ValidateValue(PyName(default_name), {"str"}, TRUE, FALSE)
    IN  IF valid # "ok" THEN Raise(valid, "_apply_default_name")
        ELSE IF default_name = None THEN Ok(obj)
        ELSE IF TypeOf(obj) = "Series"
        THEN Ok(IF obj.name = None
                THEN Series(default_name \o "_0", obj.idx, obj.rows) ELSE obj)
        ELSE IF \A c \in DOMAIN obj.cols : obj.cols[c] = Renumbered[c]
        THEN Ok(Tbl([c \in DOMAIN obj.cols |-> default_name \o "_" \o ToString(c - 1)],
                    obj.idx, obj.rows))
        ELSE Ok(obj)

\* pd.Series(data) for a flat list or a one-level index: the values under
\* the default index, named after the index if it has a name.
PdSeries(data) ==
    Series(IF TypeOf(data) = "Index" THEN data.names[1] ELSE None, <<None>>,
           [i \in DOMAIN data.items |->
               [ix |-> <<i - 1>>,
                v |-> <<IF TypeOf(data) = "Index" THEN data.items[i][1]
                        ELSE CellOf(data.items[i])>>]])

\* Series.to_frame(): an unnamed Series becomes column 0.
ToFrame(s) == Tbl(<<IF s.name = None THEN Renumbered[1] ELSE s.name>>, s.idx, s.rows)

\* Index.to_frame(index=False): one column per level, named after the level
\* or numbered.
IndexToFrame(data) ==
    Tbl([l \in DOMAIN data.names |->
            IF data.names[l] = None THEN Renumbered[l] ELSE data.names[l]],
        <<None>>,
        [i \in DOMAIN data.items |-> [ix |-> <<i - 1>>, v |-> data.items[i]]])

\* pd.DataFrame(data) for a list of lists: numbered columns, short rows
\* filled with NaN.
PdDataFrame(data) ==
    LET width == MaxOf({Len(data.items[i].items) : i \in DOMAIN data.items})
    IN  Tbl([c \in 1..width |-> Renumbered[c]], <<None>>,
            [i \in DOMAIN data.items |->
                [ix |-> <<i - 1>>,
                 v |-> [c \in 1..width |->
                           IF c <= Len(data.items[i].items)
                           THEN CellOf(data.items[i].items[c]) ELSE NaN]]])

RECURSIVE CoercionWrapper(_, _, _, _)

\* The body of coerce_series (utils.py lines 163-201).
CoerceSeriesBody(data, ndim) ==
    IF TypeOf(data) = "Series" THEN Ok(data)
    ELSE IF TypeOf(data) = "DataFrame"
    THEN (IF Len(data.cols) # 1 THEN Raise("ValueError", "coerce_series: columns")
          ELSE Ok(Series(data.cols[1], data.idx, data.rows)))
    ELSE IF TypeOf(data) = "dict"
    THEN (IF Len(data.items) = 0 THEN Ok(Series(None, <<None>>, <<>>))
          ELSE IF Len(data.items) # 1 THEN Raise("ValueError", "coerce_series: keys")
          ELSE Then(CoercionWrapper("coerce_series", data.vals[1], Absent, "unnamed"),
                    LAMBDA s : Ok(Series(data.items[1], s.idx, s.rows))))
    ELSE IF ndim = 0 THEN Ok(PdSeries(PyList(<<data>>)))
    ELSE IF ndim = 1
    THEN (IF ValidateArrayLike(data) # "ok"
          THEN Raise(ValidateArrayLike(data), "_validate_array_like")
          ELSE Ok(PdSeries(data)))
    ELSE Raise("ValueError", "coerce_series: ndim")

\* The Series of the values of a dict, each renamed to its key
\* (utils.py lines 218-221).
DictSeries(data) ==
    [i \in DOMAIN data.items |->
        Then(CoercionWrapper("coerce_series", data.vals[i], Absent, "unnamed"),
             LAMBDA s : Ok(Series(data.items[i], s.idx, s.rows)))]

\* The body of coerce_dataframe (utils.py lines 204-234).
CoerceDataframeBody(data, ndim) ==
    IF TypeOf(data) = "DataFrame" THEN Ok(data)
    ELSE IF TypeOf(data) = "Series" THEN Ok(ToFrame(data))
    ELSE IF TypeOf(data) = "Index" THEN Ok(IndexToFrame(data))
    ELSE IF TypeOf(data) = "dict" /\ Len(data.items) > 0
    THEN (IF FirstError([i \in DOMAIN data.items |-> DictSeries(data)[i].st]) # "ok"
          THEN DictSeries(data)[CHOOSE i \in DOMAIN data.items :
                                   /\ DictSeries(data)[i].st # "ok"
                                   /\ \A j \in 1..(i - 1) : DictSeries(data)[j].st = "ok"]
          ELSE PdConcat([i \in DOMAIN data.items |-> ToFrame(DictSeries(data)[i].val)],
                        "1", "outer", FALSE))
    ELSE IF ndim <= 1
    THEN Then(CoercionWrapper("coerce_series", data, Absent, None),
              LAMBDA s : Ok(ToFrame(s)))
    ELSE Ok(PdDataFrame(data))

\* A coercion decorated with _coercion_wrapper (utils.py lines 111-160):
\* func(data, return_ndim, default_name).
CoercionWrapper(func, data, return_ndim, default_name) ==
    LET dims == GetDataDimensions(data)
        listed == IF TypeOf(data) = "set" THEN PyList(data.items) ELSE data
        Body(ndim) == IF func = "coerce_series" THEN CoerceSeriesBody(listed, ndim)
                      ELSE CoerceDataframeBody(listed, ndim)
    IN  IF return_ndim \notin {Absent, "True", "False"}
        THEN Raise("TypeError", "_coercion_wrapper: return_ndim")
        ELSE Then(dims, LAMBDA ndim :
             IF ndim > 2 THEN Raise("ValueError", "_coercion_wrapper: ndim")
             ELSE Then(Body(ndim), LAMBDA made :
                  Then(ApplyDefaultName(made, default_name), LAMBDA out :
                       IF return_ndim = "True" THEN Ok([out |-> out, ndim |-> ndim])
                       ELSE Ok(out))))

\* The object a decorated coercion returns for the data b is bound to
\* (utils.py lines 156-157 after lines 163-231, 91-108): what func returns is
\* the data or a view of it when the data is a pandas object, and a view
\* counts as the object it shares its data with; the wrapper copies it;
\* _apply_default_name renames an unnamed Series into a new object and
\* assigns the columns of a DataFrame in place.
NamedBound(own, default_name) ==
    Else(ApplyDefaultName(own.val, default_name),
         LAMBDA named : IF TypeOf(own.val) = "Series" /\ named # own.val
                        THEN Fresh(own, named) ELSE InPlace(own, named),
         own)

CoercionBound(b, func, default_name) ==
    Else(CoercionWrapper(func, b.val, Absent, None),
         LAMBDA made :
             NamedBound(CopyDeep(IF \/ TypeOf(b.val) \in {"Series", "DataFrame"}
                                    \/ func = "coerce_dataframe" /\ TypeOf(b.val) = "Index"
                                 THEN [b EXCEPT !.val = made] ELSE Fresh(b, made)),
                        default_name),
         b)

\* coerce_series(data) and coerce_dataframe(data) with their defaults.
CoerceSeries(data) == CoercionWrapper("coerce_series", data, Absent, "unnamed")
CoerceDataframe(data) == CoercionWrapper("coerce_dataframe", data, Absent, "unnamed")

\* coerce_ndim that takes the first element whatever the length.
CoerceNdimFirst(data, ndim) ==
    IF ValidateValue(ndim, {"int"}, FALSE, TRUE) # "ok"
    THEN Raise("TypeError", "coerce_ndim: ndim")
    ELSE IF ndim.items[1] \notin 0..2 THEN Raise("NotImplementedError", "coerce_ndim")
    ELSE IF ndim.items[1] = 2 THEN CoerceDataframe(data)
    ELSE Then(CoerceSeries(data), LAMBDA s :
         IF ndim.items[1] = 1 THEN Ok(s)
         ELSE IF Len(s.rows) >= 1 THEN Ok(FromCell(s.rows[1].v[1]))
         ELSE Ok(PyNone))

\* coerce_ndim(data, ndim) (utils.py lines 237-288).
CoerceNdim(data, ndim) ==
    IF ValidateValue(ndim, {"int"}, FALSE, TRUE) # "ok"
    THEN Raise("TypeError", "coerce_ndim: ndim")
    ELSE IF ndim.items[1] \notin 0..2 THEN Raise("NotImplementedError", "coerce_ndim")
    ELSE IF ndim.items[1] = 2 THEN CoerceDataframe(data)
    ELSE Then(CoerceSeries(data), LAMBDA s :
         IF ndim.items[1] = 1 THEN Ok(s)
         ELSE IF Len(s.rows) = 1 THEN Ok(FromCell(s.rows[1].v[1]))
         ELSE Raise("ValueError", "coerce_ndim: length"))

\* The return of a coercion: its outcome, and the object it is.
CoerceReturn(outcome) ==
    /\ Finish(outcome)
    /\ heap' = IF outcome.st # "ok" THEN heap
               ELSE Returned(CoercionBound(Bound(heap.objs, 1, heap.objs[1]), op,
                                           kwargs.default_name))

\* coerce_series(data, ...) or coerce_dataframe(data, ...), called on its own.
CoerceCall ==
    /\ op \in {"coerce_series", "coerce_dataframe"}
    /\ pc = "call"
    /\ CoerceReturn(CoercionWrapper(op, objs[1], kwargs.return_ndim, kwargs.default_name))
    /\ UNCHANGED <<op, objs, kwargs, locals>>

\* coerce_series(out) on the DataFrame a call of coerce_dataframe returned.
CoerceBackCall ==
    /\ op = "coerce_dataframe"
    /\ pc = "done"
    /\ res.st = "ok"
    /\ df' = IF kwargs.return_ndim = "True" THEN res.val.out ELSE res.val
    /\ res' = CoerceSeries(df')
    /\ pc' = "back"
    /\ UNCHANGED <<op, objs, kwargs, params, restore_index, index_names, dupes_ok, pos, merged, heap, start, yielded>>

\* coerce_ndim(data, ndim) with the ndim a coercion of the data reported.
CoerceTaggedCall ==
    /\ op \in {"coerce_series", "coerce_dataframe"}
    /\ pc = "done"
    /\ res.st = "ok"
    /\ kwargs.return_ndim = "True"
    /\ params' = [ndim |-> res.val.ndim]
    /\ res' = CoerceNdim(objs[1], PyInt(res.val.ndim))
    /\ pc' = "tagged"
    /\ UNCHANGED <<op, objs, kwargs, restore_index, index_names, dupes_ok, df, pos, merged, heap, start, yielded>>

\* coerce_ndim(data, ndim), called on its own.
CoerceNdimCall ==
    /\ op = "coerce_ndim"
    /\ pc = "call"
    /\ Finish(CoerceNdim(objs[1], kwargs.ndim))
    /\ UNCHANGED <<op, objs, kwargs, locals, heap>>

\* -------------------------------------------------- inputs: coercion calls
\* The list of the given ints, and the list of n ones.
Flat(vals) == PyList([i \in DOMAIN vals |-> PyInt(vals[i])])
Ones(n) == Flat([i \in 1..n |-> 1])

\* Lists nested once: of one flat list, or of two lists of ones of any two
\* lengths; and lists nested deeper, regular and jagged.
NestedLists ==
    {PyList(<<a>>) : a \in {Flat(vals) : vals \in KeySeqs}}
    \cup {PyList(<<Ones(n), Ones(m)>>) : n, m \in 0..MaxRows}

DeepLists ==
    {PyList(<<PyList(<<Ones(1)>>)>>), PyList(<<PyList(<<Ones(1)>>), Ones(1)>>),
     PyList(<<PyList(<<Ones(2), Ones(1)>>)>>)}

\* A Series with the given name and index names; its index labels are keys.
SeriesOf(name, idx, keys) ==
    Series(name, idx, Numbered(1, <<name>>, idx, keys).rows)

\* Names of Series, columns and index levels: none, a string, the int 0.
CoerceNames == {None, "a", Renumbered[1]}

\* The values of the entries of a dict.
DictVals ==
    {PyInt(1), Ones(1), Ones(MaxRows), PyList(<<Ones(1)>>),
     SeriesOf("k", <<"i">>, Ascending), SeriesOf(None, <<None>>, <<0>>)}

\* The data handed to a coercion.
CoerceData ==
    {PyNone} \cup {PyInt(v) : v \in 1..MaxVal}
    \cup {Flat(vals) : vals \in KeySeqs} \cup NestedLists \cup DeepLists
    \cup {PySet(<<>>), PySet(<<PyInt(1)>>), PySet(<<PyInt(1), PyInt(MaxVal)>>)}
    \cup {PdIndex(<<n>>, [i \in DOMAIN vals |-> <<vals[i]>>]) :
             n \in CoerceNames, vals \in SortedKeySeqs}
    \cup {PdIndex(names, [i \in DOMAIN Ascending |-> [l \in DOMAIN names |-> Ascending[i]]]) :
             names \in {<<None, None>>, <<"i", "j">>, <<"i", "j", "k">>}}
    \cup {SeriesOf(n, idx, keys) :
             n \in CoerceNames, idx \in {<<None>>, <<"i">>}, keys \in SortedKeySeqs}
    \cup {Numbered(1, cols, <<"i">>, keys) :
             cols \in {<<>>, <<"a">>, <<Renumbered[1]>>, <<"a", "b">>,
                       <<Renumbered[1], Renumbered[2]>>},
             keys \in {<<>>, Repeated(1), Ascending}}
    \cup {PyDict(<<>>, <<>>)}
    \cup {PyDict(<<k>>, <<v>>) : k \in {"a", Renumbered[1]}, v \in DictVals}
    \cup {PyDict(<<"a", "b">>, <<v, w>>) : v, w \in DictVals}

\* return_ndim and default_name as passed to a coercion.
CoerceKw ==
    {[return_ndim |-> r, default_name |-> "unnamed"] : r \in {Absent, "True", "False", None}}
    \cup {[return_ndim |-> "True", default_name |-> d] : d \in {None, "", "v"}}

\* ndim as passed to coerce_ndim: an int, or None.
NdimKw == {[ndim |-> PyInt(n)] : n \in (0 - 1)..3} \cup {[ndim |-> PyNone]}

InitCoerce ==
    \/ \E o \in {"coerce_series", "coerce_dataframe"}, x \in CoerceData, kw \in CoerceKw :
           Start(o, <<x>>, kw)
    \/ \E x \in CoerceData, kw \in NdimKw : Start("coerce_ndim", <<x>>, kw)

NextCoerce == CoerceCall \/ CoerceBackCall \/ CoerceTaggedCall \/ CoerceNdimCall

SpecCoerce == InitCoerce /\ [][NextCoerce]_vars

\* ---------------------------------------------------- properties: coercion
\* coerce_series(coerce_dataframe(x)) has been computed, both with their
\* defaults, for data x whose reported dimensionality is at most 1.
WentBack ==
    /\ pc = "back"
    /\ kwargs.default_name = "unnamed"
    /\ GetDataDimensions(objs[1]).val <= 1

\* The direct coercion of x at dimensionality d.
DirectCoercion(x, d) ==
    IF d = 2 THEN CoerceDataframe(x) ELSE IF d = 1 THEN CoerceSeries(x) ELSE Ok(x)

\* coerce_ndim(x, d) has been computed for the d a coercion of x reported.
Tagged == pc = "tagged"

\* C12 as stated: for data x of dimensionality at most 1,
\* coerce_series(coerce_dataframe(x)) equals coerce_series(x) in rows and in
\* name; and coerce_ndim(x, d), d the dimensionality a coercion reported for
\* x, equals the direct coercion of x at d.
C12_AsStated ==
    /\ WentBack => res = CoerceSeries(objs[1])
    /\ Tagged => res = DirectCoercion(objs[1], params.ndim)

\* C12 amended: coerce_series(coerce_dataframe(x)) equals coerce_series(x)
\* row for row, index included, and in name unless that name is the int 0,
\* which the round trip replaces by 'unnamed_0'; coerce_ndim(x, d) equals the
\* direct coercion of x at d.
C12_RoundTrip ==
    /\ WentBack
           => LET direct == CoerceSeries(objs[1])
              IN  /\ res.st = "ok" /\ direct.st = "ok"
                  /\ res.val.rows = direct.val.rows
                  /\ res.val.idx = direct.val.idx
                  /\ IF direct.val.name = Renumbered[1]
                     THEN res.val.name = "unnamed_0"
                     ELSE res.val.name = direct.val.name
    /\ Tagged => res = DirectCoercion(objs[1], params.ndim)

\* The round trip of a flat list of two ints through coerce_dataframe gave
\* back the Series 'unnamed_0' of its values.
C12_Witness ==
    /\ WentBack
    /\ objs[1] = Flat(<<1, 2>>)
    /\ df.cols = <<"unnamed_0">>
    /\ res.st = "ok" /\ res.val.name = "unnamed_0"
    /\ res.val.rows = <<[ix |-> <<0>>, v |-> <<1>>], [ix |-> <<1>>, v |-> <<2>>]>>

\* A call of coerce_ndim with an int for ndim has ended.
NdimDone == op = "coerce_ndim" /\ pc = "done" /\ kwargs.ndim.kind = "int"

\* C13: coerce_ndim(data, ndim) returns the 2-D coercion for ndim=2 and the
\* 1-D coercion for ndim=1; for ndim=0 it returns the single element when the
\* 1-D coercion has length 1 and raises ValueError for any other length, 0
\* included; any other ndim raises NotImplementedError, whatever the data,
\* coercible or not.
C13_Dimensions ==
    NdimDone
        => LET dim == kwargs.ndim.items[1]
               s == CoerceSeries(objs[1])
           IN  /\ dim \notin 0..2
                      => (res.st = "NotImplementedError" /\ res.site = "coerce_ndim")
               /\ dim = 2 => res = CoerceDataframe(objs[1])
               /\ dim = 1 => res = s
               /\ (dim = 0 /\ s.st = "ok" /\ Len(s.val.rows) = 1)
                      => res = Ok(FromCell(s.val.rows[1].v[1]))
               /\ (dim = 0 /\ s.st = "ok" /\ Len(s.val.rows) # 1)
                      => (res.st = "ValueError" /\ res.site = "coerce_ndim: length")
               /\ (dim = 0 /\ s.st # "ok") => res = s

\* coerce_ndim of a flat list of two ints to ndim=0 raised ValueError for
\* the length.
C13_Witness ==
    /\ NdimDone /\ kwargs.ndim = PyInt(0)
    /\ objs[1] = Flat(<<1, 2>>)
    /\ res.st = "ValueError" /\ res.site = "coerce_ndim: length"

\* How deep a Python value is nested: 0 for a single value, 1 for a flat or
\* empty list, one more than its deepest element for any other list.
RECURSIVE Depth(_)
Depth(x) ==
    IF x.kind # "list" THEN 0
    ELSE IF Len(x.items) = 0 THEN 1
    ELSE 1 + MaxOf({Depth(x.items[i]) : i \in DOMAIN x.items})

\* The dimensionality of the data as the documentation gives it.
Dimensionality(x) ==
    IF TypeOf(x) = "dict" THEN (IF Len(x.items) > 1 THEN 2 ELSE 1)
    ELSE IF TypeOf(x) = "set" THEN 1
    ELSE IF TypeOf(x) = "Index" THEN (IF Len(x.names) < 2 THEN Len(x.names) ELSE 2)
    ELSE IF TypeOf(x) = "Series" THEN 1
    ELSE IF TypeOf(x) = "DataFrame" THEN 2
    ELSE Depth(x)

\* A call of coerce_series or coerce_dataframe with a bool (or nothing) for
\* return_ndim has ended.
CoerceDone ==
    /\ op \in {"coerce_series", "coerce_dataframe"}
    /\ pc = "done"
    /\ kwargs.return_ndim \in {Absent, "True", "False"}

\* C14: the dimensionality a coercion reports is 1 for a dict of 0 or 1
\* entries, 2 for a larger dict, 1 for a set, min(levels, 2) for an index and
\* the nesting depth of any other data; it is one of 0, 1, 2 on every normal
\* return, and data of more than 2 dimensions raises ValueError.
C14_Inference ==
    CoerceDone
        => /\ (res.st = "ok" /\ kwargs.return_ndim = "True")
                  => /\ res.val.ndim = Dimensionality(objs[1])
                     /\ res.val.ndim \in 0..2
           /\ res.st = "ok" => Dimensionality(objs[1]) \in 0..2
           /\ Dimensionality(objs[1]) > 2 => res.st = "ValueError"
           /\ GetDataDimensions(objs[1]).st = "ok"
                  => GetDataDimensions(objs[1]).val = Dimensionality(objs[1])

\* coerce_dataframe of the jagged list [[1, 1], [1]] returned with 2
\* dimensions reported and the short row filled with NaN.
C14_Witness ==
    /\ CoerceDone /\ op = "coerce_dataframe" /\ kwargs.return_ndim = "True"
    /\ objs[1] = PyList(<<Ones(2), Ones(1)>>)
    /\ res.st = "ok" /\ res.val.ndim = 2
    /\ res.val.out.rows[2].v = <<1, NaN>>

\* ===================================================== uniqueness, as called
\* verify_unique and drop_duplicates behind their decorators
\* (oddments/pandas/dupes.py, oddments/pandas/coercion/decorators.py).

\* The value of an optional bool flag.
Flag(flag, default) == IF flag = Absent THEN default ELSE Truthy(flag)

\* verify_unique(obj, **kw) through preserve_input_type: the object is
\* coerced to a DataFrame, checked, and None is returned
\* (decorators.py lines 105-140, dupes.py lines 88-225).
VerifyUniqueDecorated(obj, kw) ==
    IF TypeOf(obj) \notin {"Series", "DataFrame"}
    THEN Raise("TypeError", "preserve_input_type")
    ELSE Then(CoerceDataframe(obj), LAMBDA frame :
              VerifyUnique(frame, Flag(kw.column_names, TRUE),
                           IF kw.column_values = Absent THEN PyBool(FALSE)
                           ELSE PyBool(Truthy(kw.column_values)),
                           Flag(kw.index_names, TRUE), Flag(kw.index_values, FALSE),
                           Flag(kw.include_index, FALSE), Flag(kw.dropna, FALSE)))

\* DataFrame.drop_duplicates(ignore_index=...): the first of the rows of
\* equal cells is kept.
PdDropDuplicates(frame, ignore_index) ==
    LET kept == SelectAt(frame.rows,
                         LAMBDA r : \A q \in 1..(r - 1) : frame.rows[q].v # frame.rows[r].v)
    IN  Tbl(frame.cols, IF ignore_index THEN <<None>> ELSE frame.idx,
            IF ignore_index THEN WithRangeIndex(kept) ELSE kept)

\* The body of drop_duplicates (dupes.py lines 60-85).
DropDuplicatesBody(frame, include_index, kw) ==
    IF Flag(kw.inplace, FALSE) THEN Raise("ValueError", "drop_duplicates: inplace")
    ELSE IF ~include_index
    THEN Ok(PdDropDuplicates(frame, Flag(kw.ignore_index, FALSE)))
    ELSE Then(GetIndexNames(frame, TRUE, FALSE), LAMBDA names :
         Then(ResetIndex(frame), LAMBDA flat :
              IF Flag(kw.ignore_index, FALSE)
              THEN Ok(DropCols(PdDropDuplicates(flat, TRUE), Range(names.names)))
              ELSE SetIndex(PdDropDuplicates(flat, FALSE), names.names)))

\* drop_duplicates(obj, **kw) through preserve_input_type and
\* _resolve_include_index (dupes.py lines 15-85, decorators.py lines 105-140).
DropDuplicates(obj, kw) ==
    IF TypeOf(obj) \notin {"Series", "DataFrame"}
    THEN Raise("TypeError", "preserve_input_type")
    ELSE Then(CoerceDataframe(obj), LAMBDA frame :
         Then(ResolveIncludeIndex(frame, Flag(kw.include_index, FALSE)), LAMBDA value :
         Then(DropDuplicatesBody(frame, value, kw), LAMBDA out :
              IF TypeOf(obj) = "Series" THEN CoerceSeries(out) ELSE CoerceDataframe(out))))

\* The object preserve_input_type returns (decorators.py lines 105-140):
\* obj is coerced to a DataFrame, the decorated function works on that and
\* changes nothing in place, and what it returns, a new object, is coerced
\* once more unless it is None (returns_none).
Preserved(frame, outcome, returns_none) ==
    IF outcome.st = "ok" /\ ~returns_none THEN Fresh(frame, outcome.val) ELSE frame

PreservedBound(b, outcome, returns_none) ==
    IF TypeOf(b.val) \notin {"Series", "DataFrame"} THEN b
    ELSE Preserved(CoercionBound(b, "coerce_dataframe", "unnamed"), outcome, returns_none)

\* The return of a call decorated with preserve_input_type.
PreservedReturn(outcome, returns_none) ==
    /\ Finish(outcome)
    /\ heap' = Handed(PreservedBound(Bound(heap.objs, 1, heap.objs[1]), outcome,
                                     returns_none),
                      IF returns_none THEN Pending ELSE outcome)

\* verify_unique(obj, **kwargs), called on its own; it returns None.
VerifyUniqueCall ==
    /\ op = "verify_unique"
    /\ pc = "call"
    /\ PreservedReturn(VerifyUniqueDecorated(objs[1], kwargs), TRUE)
    /\ UNCHANGED <<op, objs, kwargs, locals>>

\* drop_duplicates(obj, **kwargs), called on its own.
DropDuplicatesCall ==
    /\ op = "drop_duplicates"
    /\ pc = "call"
    /\ PreservedReturn(DropDuplicates(objs[1], kwargs), FALSE)
    /\ UNCHANGED <<op, objs, kwargs, locals>>

\* ------------------------------------------------ inputs: uniqueness calls
\* A DataFrame whose row r has the index label labels[r] on every level and
\* the cell cells[r] in every column.
Labelled(cols, idx, labels, cells) ==
    Tbl(cols, idx,
        [r \in DOMAIN labels |->
            [ix |-> [l \in DOMAIN idx |-> labels[r]],
             v |-> [c \in DOMAIN cols |-> cells[r]]]])

\* The labels of the default index of MaxRows rows.
DefaultLabels == [r \in 1..MaxRows |-> r - 1]

\* Column labels: distinct, repeated, with a null label, the ints 0 and 1.
UniqueCols ==
    {<<"a">>, <<"a", "b">>, <<"a", "a">>, <<None, "a">>, <<Renumbered[1], Renumbered[2]>>}

\* Index names: unnamed, named, named like a column, repeated, named on one
\* level only, the empty string, the int 0.
UniqueIdx ==
    {<<None>>, <<"i">>, <<"a">>, <<"i", "j">>, <<"i", "i">>, <<None, None>>,
     PartlyNamed, <<"">>, <<Renumbered[1]>>}

\* The objects handed to verify_unique and drop_duplicates: DataFrames and
\* Series without rows or with MaxRows rows, the index labels the default
\* ones, distinct or repeated, the rows distinct or repeated; and a list.
UniqueObjs ==
    LET shapes == {<<DefaultLabels, Ascending>>, <<DefaultLabels, Repeated(MaxRows)>>,
                   <<Ascending, Ascending>>, <<Ascending, Repeated(MaxRows)>>,
                   <<Repeated(MaxRows), Ascending>>, <<Repeated(MaxRows), Repeated(MaxRows)>>,
                   <<<<>>, <<>>>>}
        frames == {Labelled(cols, idx, sh[1], sh[2]) :
                      cols \in UniqueCols, idx \in UniqueIdx, sh \in shapes}
        series == {Series(n, idx, Labelled(<<n>>, idx, sh[1], sh[2]).rows) :
                      n \in {None, "a"}, idx \in {<<None>>, <<"i">>}, sh \in shapes}
    IN  frames \cup series \cup {Ones(1)}

UniqueKw(column_values, index_values, include_index, ignore_index, inplace) ==
    [column_names |-> Absent, column_values |-> column_values, index_names |-> Absent,
     index_values |-> index_values, include_index |-> include_index, dropna |-> Absent,
     ignore_index |-> ignore_index, inplace |-> inplace]

\* The keyword arguments of the calls of verify_unique.
VerifyUniqueChoices ==
    {UniqueKw(values, Absent, include, Absent, Absent) :
        values \in {Absent, "True"}, include \in {Absent, "True", "False"}}
    \cup {UniqueKw(Absent, "True", Absent, Absent, Absent)}
    \cup {[UniqueKw(Absent, Absent, Absent, Absent, Absent)
               EXCEPT !.column_names = "False", !.index_names = names] :
              names \in {Absent, "True"}}

\* The keyword arguments of the calls of drop_duplicates.
DropDuplicatesChoices ==
    {UniqueKw(Absent, Absent, include, ignore, Absent) :
        include \in {Absent, "True"}, ignore \in {Absent, "True"}}
    \cup {UniqueKw(Absent, Absent, Absent, Absent, "True")}

InitUnique ==
    \/ \E obj \in UniqueObjs, kw \in VerifyUniqueChoices : Start("verify_unique", <<obj>>, kw)
    \/ \E obj \in UniqueObjs, kw \in DropDuplicatesChoices :
           Start("drop_duplicates", <<obj>>, kw)

NextUnique == VerifyUniqueCall \/ DropDuplicatesCall

SpecUnique == InitUnique /\ [][NextUnique]_vars

\* ------------------------------------------------- properties: uniqueness
\* A call of verify_unique on a pandas object with every flag left to its
\* default has ended.
DefaultVerify ==
    /\ op = "verify_unique" /\ pc = "done"
    /\ TypeOf(objs[1]) \in {"Series", "DataFrame"}
    /\ kwargs = UniqueKw(Absent, Absent, Absent, Absent, Absent)

\* The column labels of the object; a Series is the column of its name.
LabelsOf(obj) ==
    IF TypeOf(obj) = "DataFrame" THEN obj.cols
    ELSE IF obj.name = None THEN <<"unnamed_0">> ELSE <<obj.name>>

\* The object has a null column label, a repeated column label, a repeated
\* index level name, or an index level name that is a column label.
NullLabel(obj) == None \in Range(LabelsOf(obj))
RepeatedLabel(obj) == HasDupes(LabelsOf(obj))
RepeatedLevel(obj) ==
    \E i, j \in DOMAIN obj.idx : i < j /\ obj.idx[i] = obj.idx[j] /\ obj.idx[i] # None
LevelIsLabel(obj) ==
    \E i \in DOMAIN obj.idx : obj.idx[i] # None /\ obj.idx[i] \in Range(LabelsOf(obj))
DuplicateNames(obj) ==
    NullLabel(obj) \/ RepeatedLabel(obj) \/ RepeatedLevel(obj) \/ LevelIsLabel(obj)

\* The index names are all None or all non-empty strings.
ValidNames(obj) ==
    \/ Unnamed(obj)
    \/ \A l \in DOMAIN obj.idx : obj.idx[l] \notin {None, ""} \cup Range(Renumbered)

\* C15 as stated: with default flags verify_unique raises ValueError if and
\* only if the object has a null or repeated column label, a repeated index
\* level name or an index level name that is a column label, and returns
\* normally otherwise.
C15_AsStated ==
    DefaultVerify
        => /\ res.st = "ValueError" <=> DuplicateNames(objs[1])
           /\ ~DuplicateNames(objs[1]) => res.st = "ok"

\* C15 amended: that holds for objects whose index names are all None or all
\* non-empty strings; a null or repeated column label raises ValueError
\* whatever the index; any other object with an index name that is None
\* beside a named level, empty, or not a string raises TypeError or
\* ValueError from the reading of the index names.
C15_Defaults ==
    DefaultVerify
        => /\ ValidNames(objs[1])
                  => /\ res.st = "ValueError" <=> DuplicateNames(objs[1])
                     /\ ~DuplicateNames(objs[1]) => res.st = "ok"
           /\ (NullLabel(objs[1]) \/ RepeatedLabel(objs[1])) => res.st = "ValueError"
           /\ (~ValidNames(objs[1]) /\ ~NullLabel(objs[1]) /\ ~RepeatedLabel(objs[1]))
                  => /\ res.st \in {"TypeError", "ValueError"}
                     /\ res.site = "get_index_names"

\* verify_unique with default flags raised ValueError for an index named
\* like a column, on an object whose rows and index labels are distinct.
C15_Witness ==
    /\ DefaultVerify
    /\ objs[1] = Labelled(<<"a", "b">>, <<"a">>, Ascending, Ascending)
    /\ res.st = "ValueError" /\ res.site = "verify_unique: index and column names"

\* verify_unique with default flags returned for an object whose rows are
\* all equal and whose index labels are all equal.
C15_Unchecked ==
    /\ DefaultVerify
    /\ objs[1] = Labelled(<<"a", "b">>, <<"i">>, Repeated(MaxRows), Repeated(MaxRows))
    /\ res.st = "ok"

\* A call of verify_unique or drop_duplicates on a pandas object with
\* include_index=True has ended.
IncludedIndex ==
    /\ op \in {"verify_unique", "drop_duplicates"} /\ pc = "done"
    /\ TypeOf(objs[1]) \in {"Series", "DataFrame"}
    /\ kwargs.include_index = "True"

\* The index has one level and the labels 0, 1, ... of the default index.
DefaultShaped(obj) ==
    Len(obj.idx) = 1 /\ \A r \in DOMAIN obj.rows : obj.rows[r].ix = <<r - 1>>

\* The outcome of the same call without include_index.
WithoutIndex ==
    IF op = "verify_unique"
    THEN VerifyUniqueDecorated(objs[1], [kwargs EXCEPT !.include_index = Absent])
    ELSE DropDuplicates(objs[1], [kwargs EXCEPT !.include_index = Absent])

\* C16 as stated: include_index=True on an object whose index is
\* default-shaped and unnamed fails with NotImplementedError.
C16_AsStated ==
    (IncludedIndex /\ DefaultShaped(objs[1]) /\ Unnamed(objs[1]))
        => res.st = "NotImplementedError"

\* C16 amended: include_index=True on a default-shaped index, unnamed or
\* validly named, is resolved to False and the call goes on as without it;
\* on an unnamed index that is not default-shaped (other labels, or several
\* levels) the call fails with NotImplementedError, and only there.
C16_Resolved ==
    IncludedIndex
        => /\ (DefaultShaped(objs[1]) /\ ValidNames(objs[1]))
                  => (res.st # "NotImplementedError" /\ res = WithoutIndex)
           /\ (Unnamed(objs[1]) /\ ~DefaultShaped(objs[1]))
                  => (res.st = "NotImplementedError"
                      /\ res.site = "_resolve_include_index")
           /\ res.st = "NotImplementedError"
                  => (Unnamed(objs[1]) /\ ~DefaultShaped(objs[1]))

\* drop_duplicates with include_index=True failed with NotImplementedError
\* on an object with an unnamed index labelled 1, 2.
C16_Witness ==
    /\ IncludedIndex /\ op = "drop_duplicates"
    /\ objs[1] = Labelled(<<"a", "b">>, <<None>>, Ascending, Ascending)
    /\ res.st = "NotImplementedError"

\* ================================================================ trim_na
\* A model of oddments/pandas/dropna.py.

\* Infinity, a value that is not null.
Inf == 0 - 2

\* None as the bound of a slice; a label is a tuple of one value per level,
\* never the empty one.
OpenEnd == <<>>

\* Series.loc[left:right] with labels for bounds, None for an open end: the
\* rows from the first row labelled left to the last row labelled right;
\* KeyError when the rows carrying a bound's label are not next to each
\* other.
LocSlice(s, left, right) ==
    LET Rows(label) == {r \in DOMAIN s.rows : s.rows[r].ix = label}
        Apart(label) ==
            \E a, b \in Rows(label) : \E r \in a..b : r \notin Rows(label)
        begin == IF left = OpenEnd THEN 1 ELSE CHOOSE a \in Rows(left) : \A b \in Rows(left) : a <= b
        stop == IF right = OpenEnd THEN Len(s.rows)
                ELSE CHOOSE a \in Rows(right) : \A b \in Rows(right) : b <= a
    IN  IF (left # OpenEnd /\ Apart(left)) \/ (right # OpenEnd /\ Apart(right))
        THEN Raise("KeyError", "Series.loc")
        ELSE Ok(Series(s.name, s.idx, SubSeq(s.rows, begin, stop)))

\* The bounds of the slice (dropna.py lines 66-75): positions of the first
\* and the last value that is not null, turned into labels or None.
TrimBounds(out, which) ==
    LET valid == {r \in DOMAIN out.rows : out.rows[r].v[1] # NaN}
        first == out.rows[CHOOSE a \in valid : \A b \in valid : a <= b].ix
        last == out.rows[CHOOSE a \in valid : \A b \in valid : b <= a].ix
    IN  [left |-> IF which = "trailing" THEN OpenEnd ELSE first,
         right |-> IF which = "leading" THEN OpenEnd ELSE last]

\* out.replace(to_replace=[np.inf, -np.inf], value=np.nan)
ReplaceInf(s) ==
    Series(s.name, s.idx,
           [r \in DOMAIN s.rows |->
               [ix |-> s.rows[r].ix,
                v |-> IF s.rows[r].v[1] = Inf THEN <<NaN>> ELSE s.rows[r].v]])

\* The body of trim_na (dropna.py lines 38-87); which is a string or None.
TrimBody(s, which, inf_as_na, raise_on_na) ==
    LET out == IF inf_as_na THEN ReplaceInf(s) ELSE s
    IN  IF which = None THEN Raise("TypeError", "trim_na: which")
        ELSE IF which \notin {"both", "leading", "trailing"}
        THEN Raise("ValueError", "trim_na: which")
        ELSE Then(VerifyIndexValues(s), LAMBDA none :
             IF Len(s.rows) = 0 THEN Ok(s)
             ELSE IF \A r \in DOMAIN out.rows : out.rows[r].v[1] = NaN
             THEN (IF raise_on_na THEN Raise("ValueError", "trim_na: only nulls")
                   ELSE Ok(Series(out.name, out.idx, <<>>)))
             ELSE Then(LocSlice(out, TrimBounds(out, which).left, TrimBounds(out, which).right),
                       LAMBDA cut :
                  IF raise_on_na /\ \E r \in DOMAIN cut.rows : cut.rows[r].v[1] = NaN
                  THEN Raise("ValueError", "trim_na: nulls")
                  ELSE Ok(cut)))

\* trim_na(s, which, inf_as_na, raise_on_na) through with_coerce_series
\* (decorators.py lines 44-74, 77-88).
TrimNa(data, kw) ==
    Then(CoercionWrapper("coerce_series", data, "True", "unnamed"), LAMBDA coerced :
         TrimBody(coerced.out, IF kw.which = Absent THEN "both" ELSE kw.which,
                  Flag(kw.inf_as_na, FALSE), Flag(kw.raise_on_na, FALSE)))

\* The object trim_na returns (decorators.py lines 61-68, dropna.py lines
\* 45-79): s is the coerced data; an empty s is returned as it is; out is a
\* copy of s in which infinities are replaced in place; the result is a new
\* object (dropna) or a slice of out.
TrimResult(out, outcome) ==
    IF outcome.st # "ok" THEN out
    ELSE IF Len(outcome.val.rows) = 0 THEN Fresh(out, outcome.val)
    ELSE [out EXCEPT !.val = outcome.val]

TrimCopy(out, kw, outcome) ==
    TrimResult(IF Flag(kw.inf_as_na, FALSE) THEN InPlace(out, ReplaceInf(out.val)) ELSE out,
               outcome)

TrimBound(s, kw, outcome) ==
    IF TypeOf(s.val) # "Series" THEN s
    ELSE IF outcome.site \in {"trim_na: which", "verify_index_values"} THEN s
    ELSE IF Len(s.val.rows) = 0 THEN s
    ELSE TrimCopy(CopyDeep(s), kw, outcome)

\* The return of trim_na.
TrimReturn(outcome) ==
    /\ Finish(outcome)
    /\ heap' = Handed(TrimBound(CoercionBound(Bound(heap.objs, 1, heap.objs[1]),
                                              "coerce_series", "unnamed"),
                                kwargs, outcome),
                      outcome)

\* trim_na(s, **kwargs), called on its own.
TrimNaCall ==
    /\ op = "trim_na"
    /\ pc = "call"
    /\ TrimReturn(TrimNa(objs[1], kwargs))
    /\ UNCHANGED <<op, objs, kwargs, locals>>

\* ------------------------------------------------------ inputs: trim_na
\* The values of a sequence with nulls where the mask says: the values that
\* are not null are 1, 2, ... in this order.
Masked(mask) ==
    [i \in DOMAIN mask |->
        IF mask[i] THEN NaN ELSE Cardinality({j \in 1..i : ~mask[j]})]

\* Every sequence of at most n elements, null or not.
MaskedSeqs(n) == {Masked(mask) : mask \in UNION {[1..k -> BOOLEAN] : k \in 0..n}}

\* The list of the given values.
ListOf(vals) ==
    PyList([i \in DOMAIN vals |-> IF vals[i] = NaN THEN PyNone ELSE PyInt(vals[i])])

\* A Series of the given values under an unnamed index with the given labels.
LabelledSeries(vals, labels) ==
    Series("a", <<None>>, [i \in DOMAIN vals |-> [ix |-> <<labels[i]>>, v |-> <<vals[i]>>]])

\* The data handed to trim_na: lists of up to MaxLen elements, lists with
\* infinite values, and short Series whose labels descend, repeat in pairs,
\* or alternate.
TrimData ==
    {ListOf(vals) : vals \in MaskedSeqs(MaxLen)}
    \cup {ListOf(<<Inf>>), ListOf(<<Inf, 1, NaN, Inf>>), ListOf(<<NaN, Inf>>)}
    \cup UNION {{LabelledSeries(vals, [i \in DOMAIN vals |-> Len(vals) - i]),
                 LabelledSeries(vals, [i \in DOMAIN vals |-> (i - 1) \div 2]),
                 LabelledSeries(vals, [i \in DOMAIN vals |-> (i - 1) % 2]),
                 LabelledSeries(vals, [i \in DOMAIN vals |-> IF i = 1 THEN NaN ELSE i])} :
                    vals \in MaskedSeqs(MaxRows + 1)}

\* which, inf_as_na and raise_on_na as passed to trim_na.
TrimKw ==
    {[which |-> w, inf_as_na |-> i, raise_on_na |-> r] :
        w \in {Absent, "both", "leading", "trailing", "all", None},
        i \in {Absent, "True"}, r \in {Absent, "True"}}

InitTrim == \E x \in TrimData, kw \in TrimKw : Start("trim_na", <<x>>, kw)

NextTrim == TrimNaCall

SpecTrim == InitTrim /\ [][NextTrim]_vars

\* ---------------------------------------------------- properties: trim_na
\* A call of trim_na with the default which and inf_as_na has ended, on data
\* none of whose index labels is null.
TrimDone ==
    /\ op = "trim_na" /\ pc = "done"
    /\ kwargs.which \in {Absent, "both"} /\ kwargs.inf_as_na = Absent
    /\ \A r \in DOMAIN CoerceSeries(objs[1]).val.rows :
           CoerceSeries(objs[1]).val.rows[r].ix # <<NaN>>

\* The rows of the data from its first to its last value that is not null.
Trimmed(rows) ==
    LET valid == {r \in DOMAIN rows : rows[r].v[1] # NaN}
    IN  IF valid = {} THEN <<>>
        ELSE SubSeq(rows, CHOOSE a \in valid : \A b \in valid : a <= b,
                    CHOOSE a \in valid : \A b \in valid : b <= a)

\* What trim_na is to do with the rows of its data: return the trimmed
\* rows, or with raise_on_na raise ValueError when a null is left among them
\* or when the data has nothing but nulls.
TrimmedAsClaimed(rows) ==
    LET left == \E r \in DOMAIN Trimmed(rows) : Trimmed(rows)[r].v[1] = NaN
        nulls == Len(rows) > 0 /\ Trimmed(rows) = <<>>
    IN  IF kwargs.raise_on_na = "True" /\ (left \/ nulls)
        THEN res.st = "ValueError"
        ELSE res.st = "ok" /\ res.val.rows = Trimmed(rows)

\* C17: trim_na removes exactly the leading and the trailing nulls and keeps
\* the ones between values: [null, null, 1, null, 2, null, null] gives
\* [1, null, 2]; with raise_on_na=True it raises ValueError whenever a null is
\* left in the trimmed range; data of nothing but nulls gives an empty
\* sequence, or ValueError with raise_on_na=True.
C17_Trimmed == TrimDone => TrimmedAsClaimed(CoerceSeries(objs[1]).val.rows)

\* The same for lists, whose rows carry the labels of the default index.
TrimmedLists ==
    (TrimDone /\ TypeOf(objs[1]) = "list")
        => TrimmedAsClaimed(CoerceSeries(objs[1]).val.rows)

\* trim_na of [null, null, 1, null, 2, null, null] returned [1, null, 2].
TrimmedExample ==
    /\ TrimDone /\ kwargs.raise_on_na = Absent
    /\ objs[1] = ListOf(<<NaN, NaN, 1, NaN, 2, NaN, NaN>>)
    /\ res.st = "ok"
    /\ [r \in DOMAIN res.val.rows |-> res.val.rows[r].v[1]] = <<1, NaN, 2>>

\* trim_na of a Series whose rows all carry the label 0 returned its leading
\* null.
TrimmedRepeated ==
    /\ TrimDone /\ kwargs.raise_on_na = Absent
    /\ objs[1] = LabelledSeries(<<NaN, 1>>, <<0, 0>>)
    /\ res.st = "ok"
    /\ [r \in DOMAIN res.val.rows |-> res.val.rows[r].v[1]] = <<NaN, 1>>

\* ====================================================== caller's objects
\* A model of what the calls do to the objects they are handed
\* (oddments/pandas/indexing/utils.py, combine.py, coercion/utils.py,
\* coercion/decorators.py, dupes.py, dropna.py).

\* A str given by its pieces; the piece "{level}" is the placeholder.
PyText(pieces) == [kind |-> "str", items |-> pieces]

\* name_template.format(level=level)
RECURSIVE FormatLevel(_, _)
FormatLevel(pieces, level) ==
    IF pieces = <<>> THEN ""
    ELSE (IF Head(pieces) = "{level}" THEN ToString(level) ELSE Head(pieces))
             \o FormatLevel(Tail(pieces), level)

\* ensure_index_names(obj, name_template) (indexing/utils.py lines 113-160).
EnsureIndexNames(obj, name_template) ==
    Then(HasNamedIndex(obj), LAMBDA named :
         IF named THEN Ok(obj)
         ELSE LET template == IF name_template.kind \in {"none", "absent"}
                              THEN <<"level_", "{level}">> ELSE name_template.items
              IN  IF "{level}" \notin Range(template)
                  THEN Raise("ValueError", "ensure_index_names")
                  ELSE Ok([obj EXCEPT !.idx = [l \in DOMAIN obj.idx |->
                                                  FormatLevel(template, l - 1)]]))

\* The return of ensure_index_names: obj is copied first, and the names are
\* assigned to the index of the copy.
EnsureReturn(own, outcome) ==
    /\ Finish(outcome)
    /\ heap' = IF outcome.st = "ok" THEN Returned(InPlace(own, outcome.val))
               ELSE NoObject(own)

\* ensure_index_names(obj, name_template), called on its own.
EnsureIndexNamesCall ==
    /\ op = "ensure_index_names"
    /\ pc = "call"
    /\ EnsureReturn(CopyDeep(Bound(heap.objs, 1, heap.objs[1])),
                    EnsureIndexNames(objs[1], kwargs.name_template))
    /\ UNCHANGED <<op, objs, kwargs, locals>>

\* The calls whose result and arguments are followed.
OwnedOps == {"merge", "join", "concat", "drop_duplicates", "verify_unique",
             "ensure_index_names", "coerce_series", "coerce_dataframe", "trim_na"}

\* The pandas object a call returned.
ReturnedObject ==
    IF op \in {"coerce_series", "coerce_dataframe"} /\ kwargs.return_ndim = "True"
    THEN res.val.out ELSE res.val

\* The caller changes the returned object in place: it drops every row
\* (out.drop(out.index, inplace=True)) or names every index level "m".
MutateReturned ==
    /\ op \in OwnedOps \ {"verify_unique"}
    /\ pc = "done"
    /\ res.st = "ok"
    /\ \E changed \in {[ReturnedObject EXCEPT !.rows = <<>>],
                       [ReturnedObject EXCEPT !.idx = [l \in DOMAIN ReturnedObject.idx |-> "m"]]} :
           /\ res' = Ok(changed)
           /\ heap' = Returned(InPlace(Bound(heap.objs, heap.ret, ReturnedObject), changed))
    /\ pc' = "changed"
    /\ UNCHANGED <<op, objs, kwargs, locals>>

\* ------------------------------------------- inputs: the followed calls
OwnedIdx == {<<None>>, <<"i">>, <<"i", "j">>, <<None, None>>, PartlyNamed}

\* Lists of one to MaxObjs objects for merge and join: the first with every
\* choice of index names, the others with the names of the first or none.
OwnedLists ==
    LET firsts == {Frame(<<"k", "a">>, idx, Ascending) : idx \in OwnedIdx}
        Seconds(f) == {Frame(<<"k", "b">>, idx, Repeated(1)) : idx \in {f.idx, <<None>>}}
        Rest(f, len) == [n \in 1..len |-> Frame(<<"k", JoinCols[n + 2]>>, f.idx, Ascending)]
    IN  {<<f>> : f \in firsts}
        \cup UNION {{<<f, g>> \o Rest(f, len) : g \in Seconds(f), len \in 0..(MaxObjs - 2)} :
                        f \in firsts}

\* Objects for join share no column.
OwnedJoinLists ==
    LET firsts == {Indexed(<<"a">>, idx, Ascending) : idx \in OwnedIdx}
        Seconds(f) == {Indexed(<<"b">>, idx, Repeated(1)) : idx \in {f.idx, <<None>>}}
    IN  {<<f>> : f \in firsts} \cup UNION {{<<f, g>> : g \in Seconds(f)} : f \in firsts}

OwnedMergeKw ==
    {MergeKw(how, on, PyAbsent, PyAbsent, Absent, Absent, Absent) :
        how \in {Absent, "inner", "anti"}, on \in {PyStr("k"), PyAbsent}}

OwnedJoinKw ==
    {MergeKw(how, PyAbsent, PyAbsent, PyAbsent, Absent, Absent, Absent) :
        how \in {Absent, "outer", "anti"}}

OwnedConcatKw ==
    {ConcatKw(axis, Absent, Absent, ignore) :
        axis \in {Absent, "1"}, ignore \in {Absent, "True", "False"}}

\* The pandas objects handed to the calls that take one.
OwnedObjs ==
    {Labelled(cols, idx, labels, Ascending) :
        cols \in {<<"a", "b">>, <<Renumbered[1], Renumbered[2]>>}, idx \in OwnedIdx,
        labels \in {DefaultLabels, Ascending}}
    \cup {Series(n, idx, Labelled(<<n>>, idx, labels, Ascending).rows) :
             n \in {None, "a"}, idx \in {<<None>>, <<"i">>},
             labels \in {DefaultLabels, Ascending}}

\* Series with nulls and infinities, and an empty one.
OwnedSeries ==
    {LabelledSeries(vals, [i \in DOMAIN vals |-> i - 1]) :
        vals \in MaskedSeqs(MaxRows + 1) \cup {<<>>, <<Inf, 1, NaN>>, <<NaN, Inf>>}}

OwnedTemplates == {PyAbsent, PyNone, PyText(<<"n", "{level}">>), PyText(<<"n">>), PyText(<<>>)}

InitOwned ==
    \/ \E os \in OwnedLists, kw \in OwnedMergeKw : Start("merge", os, kw)
    \/ \E os \in OwnedJoinLists, kw \in OwnedJoinKw : Start("join", os, kw)
    \/ \E os \in OwnedLists, kw \in OwnedConcatKw : Start("concat", os, kw)
    \/ \E o \in {"coerce_series", "coerce_dataframe"},
          x \in OwnedObjs \cup {PdIndex(<<"i">>, <<<<1>>, <<2>>>>), Ones(2)},
          kw \in CoerceKw : Start(o, <<x>>, kw)
    \/ \E x \in OwnedObjs, kw \in VerifyUniqueChoices : Start("verify_unique", <<x>>, kw)
    \/ \E x \in OwnedObjs, kw \in DropDuplicatesChoices : Start("drop_duplicates", <<x>>, kw)
    \/ \E x \in OwnedSeries \cup OwnedObjs, kw \in TrimKw : Start("trim_na", <<x>>, kw)
    \/ \E x \in OwnedObjs, t \in OwnedTemplates :
           Start("ensure_index_names", <<x>>, [name_template |-> t])

NextOwned ==
    \/ JoinEntry \/ MergeEntry \/ FoldStep \/ MergeExit \/ ConcatCall
    \/ CoerceCall \/ VerifyUniqueCall \/ DropDuplicatesCall \/ TrimNaCall
    \/ EnsureIndexNamesCall \/ MutateReturned

SpecOwned == InitOwned /\ [][NextOwned]_vars

\* ------------------------------------------------- properties: ownership
\* A followed call has returned or raised, and the caller may have changed
\* what it returned.
OwnedDone == op \in OwnedOps /\ pc \in {"done", "changed"}

\* C18: after a call of merge, join, concat, drop_duplicates, verify_unique,
\* ensure_index_names, coerce_series, coerce_dataframe or trim_na, whether it
\* returned or raised, every object the caller passed has the values, column
\* names, index and index names it had, also after the caller has changed
\* the returned object in place; and the returned object is none of the
\* caller's objects, a single object that is passed through as it is
\* included.
C18_Owned ==
    OwnedDone => /\ heap.objs = objs
                 /\ res.st = "ok" => heap.ret = 0

\* merge of a single object with the index i returned an object of the same
\* value, the caller dropped its rows, and the object passed keeps its rows.
C18_Witness ==
    /\ op = "merge" /\ pc = "changed"
    /\ Len(objs) = 1 /\ objs[1].idx = <<"i">>
    /\ res.val = [objs[1] EXCEPT !.rows = <<>>]
    /\ heap.objs[1].rows # <<>>

\* trim_na raised on a Series with infinities, after it had replaced them in
\* its copy.
OwnedRaised ==
    /\ op = "trim_na" /\ pc = "done" /\ res.st = "ValueError"
    /\ kwargs.inf_as_na = "True"
    /\ \E r \in DOMAIN objs[1].rows : objs[1].rows[r].v[1] = Inf
    /\ heap.objs = objs

\* ============================================================ index names
\* get_index_names and has_named_index called on their own
\* (oddments/pandas/indexing/utils.py lines 6-74).

\* get_index_names(obj, simplify=..., drop_none=...), called on its own.
GetIndexNamesCall ==
    /\ op = "get_index_names"
    /\ pc = "call"
    /\ Finish(GetIndexNames(objs[1], Flag(kwargs.simplify, FALSE),
                            Flag(kwargs.drop_none, FALSE)))
    /\ UNCHANGED <<op, objs, kwargs, locals, heap>>

\* has_named_index(obj), called on its own.
HasNamedIndexCall ==
    /\ op = "has_named_index"
    /\ pc = "call"
    /\ Finish(HasNamedIndex(objs[1]))
    /\ UNCHANGED <<op, objs, kwargs, locals, heap>>

\* Index names of one to three levels: each level unnamed, named, named with
\* the empty string or with the int 0.
LevelNames == {None, "i", "j", "", Renumbered[1]}
NamesIdx == UNION {[1..n -> LevelNames] : n \in 1..3}

\* DataFrames and Series under every such index.
NamesObjs ==
    {Labelled(<<"a", "b">>, idx, Ascending, Ascending) : idx \in NamesIdx}
    \cup {Series("a", idx, Labelled(<<"a">>, idx, Ascending, Ascending).rows) : idx \in NamesIdx}

NamesKw == {[simplify |-> s, drop_none |-> d] :
               s \in {Absent, "True", "False"}, d \in {Absent, "True", "False"}}

InitIndexNames ==
    \/ \E x \in NamesObjs, kw \in NamesKw : Start("get_index_names", <<x>>, kw)
    \/ \E x \in NamesObjs : Start("has_named_index", <<x>>, [simplify |-> Absent, drop_none |-> Absent])

NextIndexNames == GetIndexNamesCall \/ HasNamedIndexCall

SpecIndexNames == InitIndexNames /\ [][NextIndexNames]_vars

\* ------------------------------------------------ properties: index names
\* A name that is a non-empty string.
ProperName(n) == n \notin {None, ""} \cup Range(Renumbered)

\* Some level is named, and another level's name is None, empty or not a
\* string.
HalfNamed(obj) ==
    \E l, k \in DOMAIN obj.idx : l # k /\ obj.idx[l] # None /\ ~ProperName(obj.idx[k])

IndexNamesDone == op \in {"get_index_names", "has_named_index"} /\ pc = "done"

\* C19: get_index_names(obj) returns a list of one entry per index level, and
\* whatever the options, the entries it returns are all None or all
\* non-empty strings; on an index where some level is named and another
\* level's name is None, empty or not a string, get_index_names and
\* has_named_index raise TypeError or ValueError and return nothing.
C19_Names ==
    IndexNamesDone =>
        /\ HalfNamed(objs[1]) => res.st \in {"TypeError", "ValueError"}
        /\ (op = "get_index_names" /\ res.st = "ok") =>
               /\ \/ \A i \in DOMAIN res.val.names : res.val.names[i] = None
                  \/ \A i \in DOMAIN res.val.names : ProperName(res.val.names[i])
               /\ (~Truthy(kwargs.simplify) /\ ~Truthy(kwargs.drop_none)) =>
                      /\ ~res.val.scalar
                      /\ Len(res.val.names) = Len(objs[1].idx)
                      /\ res.val.names = objs[1].idx
        /\ res.st \in {"ok", "TypeError", "ValueError"}

\* get_index_names(obj) raised TypeError on a DataFrame whose index has the
\* levels i and None.
C19_Witness ==
    /\ IndexNamesDone /\ op = "get_index_names"
    /\ kwargs.simplify = Absent /\ kwargs.drop_none = Absent
    /\ objs[1].idx = <<"i", None>>
    /\ res.st = "TypeError"

\* get_index_names(obj) returned the three names of a three-level index.
NamesReturned ==
    /\ IndexNamesDone /\ op = "get_index_names"
    /\ kwargs.simplify = Absent /\ kwargs.drop_none = Absent
    /\ objs[1].idx = <<"i", "j", "i">>
    /\ res.st = "ok" /\ res.val.names = <<"i", "j", "i">>

\* get_index_names(obj, drop_none=True) returned an empty list for an
\* unnamed index of two levels.
NamesDropped ==
    /\ IndexNamesDone /\ op = "get_index_names" /\ kwargs.drop_none = "True"
    /\ objs[1].idx = <<None, None>>
    /\ res.st = "ok" /\ res.val.names = <<>>

\* ========================================================= validate_value
\* validate_value with its blacklist, whitelist and bounds
\* (oddments/validation/utils.py lines 4-134).  A value is a Python value
\* (kind, items); a bool carries TRUE or FALSE, an int its number.

\* isinstance(x, kinds): a bool is an int as well.
IsInstance(x, kinds) == x.kind \in kinds \/ (x.kind = "bool" /\ "int" \in kinds)

\* The number a bool or an int compares as.
NumberOf(x) == IF x.kind = "bool" THEN (IF x.items[1] THEN 1 ELSE 0) ELSE x.items[1]

\* a == b
PyEq(a, b) ==
    IF a.kind \in {"int", "bool"} /\ b.kind \in {"int", "bool"}
    THEN NumberOf(a) = NumberOf(b)
    ELSE a.kind = b.kind /\ a.items = b.items

\* The list a blacklist or whitelist stands for: a str is a list of itself.
Listed(list) == IF list.kind = "str" THEN <<list>> ELSE list.items

\* value in list
PyIn(value, list) == \E i \in DOMAIN list : PyEq(value, list[i])

\* [x for x in whitelist if isinstance(x, type(value))]
TypedWhitelist(value, whitelist) ==
    SelectAt(whitelist, LAMBDA i : IsInstance(whitelist[i], {value.kind}))

\* The return of validate_value from its whitelist check.
Whitelisted == [st |-> "ok", site |-> "validate_value: whitelist", val |-> None]

\* The checks after the whitelist (lines 105-134), finite left False.
ValidateBounds(value, kw) ==
    IF ~Flag(kw.empty_ok, TRUE) /\ value.kind \notin {"str", "list"}
    THEN Raise("TypeError", "validate_value: len")
    ELSE IF ~Flag(kw.empty_ok, TRUE) /\ Len(value.items) = 0
    THEN Raise("ValueError", "validate_value: empty")
    ELSE IF kw.min_value.kind = "none" /\ kw.max_value.kind = "none" THEN Ok(None)
    ELSE IF value.kind \notin {"int", "bool"}
    THEN Raise("TypeError", "validate_value: bounds")
    ELSE IF /\ kw.min_value.kind # "none"
            /\ IF Flag(kw.min_inclusive, FALSE) THEN NumberOf(value) < NumberOf(kw.min_value)
               ELSE NumberOf(value) <= NumberOf(kw.min_value)
    THEN Raise("ValueError", "validate_value: min_value")
    ELSE IF /\ kw.max_value.kind # "none"
            /\ IF Flag(kw.max_inclusive, FALSE) THEN NumberOf(value) > NumberOf(kw.max_value)
               ELSE NumberOf(value) >= NumberOf(kw.max_value)
    THEN Raise("ValueError", "validate_value: max_value")
    ELSE Ok(None)

\* validate_value whose whitelist check rejects a value also when the
\* whitelist has no entry of the value's type.
ValidateValueStrictly(value, kw) ==
    IF Flag(kw.none_ok, FALSE) /\ value.kind = "none" THEN Ok(None)
    ELSE IF ~IsInstance(value, kw.types) THEN Raise("TypeError", "validate_value: types")
    ELSE IF kw.blacklist.kind # "none" /\ PyIn(value, Listed(kw.blacklist))
    THEN Raise("ValueError", "validate_value: blacklist")
    ELSE IF kw.whitelist.kind # "none"
    THEN (IF PyIn(value, TypedWhitelist(value, Listed(kw.whitelist))) THEN Whitelisted
          ELSE Raise("ValueError", "validate_value: whitelist"))
    ELSE ValidateBounds(value, kw)

\* validate_value(value, types, ..., whitelist, blacklist, none_ok, empty_ok)
\* (lines 66-134).
ValidateValueListed(value, kw) ==
    IF Flag(kw.none_ok, FALSE) /\ value.kind = "none" THEN Ok(None)
    ELSE IF ~IsInstance(value, kw.types) THEN Raise("TypeError", "validate_value: types")
    ELSE IF kw.blacklist.kind # "none" /\ PyIn(value, Listed(kw.blacklist))
    THEN Raise("ValueError", "validate_value: blacklist")
    ELSE IF kw.whitelist.kind # "none"
            /\ TypedWhitelist(value, Listed(kw.whitelist)) # <<>>
    THEN (IF PyIn(value, TypedWhitelist(value, Listed(kw.whitelist))) THEN Whitelisted
          ELSE Raise("ValueError", "validate_value: whitelist"))
    ELSE ValidateBounds(value, kw)

\* validate_value(value, **kwargs), called on its own.
ValidateValueCall ==
    /\ op = "validate_value"
    /\ pc = "call"
    /\ Finish(ValidateValueListed(objs[1], kwargs))
    /\ UNCHANGED <<op, objs, kwargs, locals, heap>>

\* ------------------------------------------- inputs: validate_value calls
\* The values: strings, the empty string, ints, bools, None, lists.
ListedValues ==
    <<PyStr("a"), PyStr("b"), PyStr(""), PyInt(1), PyInt(2), PyBool(TRUE), PyBool(FALSE),
      PyNone, PyList(<<>>), PyList(<<"a">>)>>

ListedTypes == {{"str"}, {"int"}, {"str", "int"}, {"list", "str"}, {"bool"}}

\* Whitelists: none, a bare string, lists of strings, of ints, of both, of a
\* bool, of a list, and the empty list.
Whitelists ==
    <<PyNone, PyStr("a"), PyList(<<PyStr("a"), PyStr("b")>>), PyList(<<PyInt(1), PyInt(2)>>),
      PyList(<<PyInt(2), PyStr("a")>>), PyList(<<PyBool(TRUE)>>),
      PyList(<<PyList(<<"a">>)>>), PyList(<<>>)>>

Blacklists == <<PyNone, PyStr("b"), PyList(<<PyInt(2)>>)>>

\* min_value, max_value and their inclusive flags.
ListedBounds ==
    {[min_value |-> PyNone, max_value |-> PyNone, min_inclusive |-> Absent,
      max_inclusive |-> Absent]}
    \cup {[min_value |-> PyInt(1), max_value |-> PyNone, min_inclusive |-> i,
           max_inclusive |-> Absent] : i \in {Absent, "True"}}
    \cup {[min_value |-> PyNone, max_value |-> PyInt(2), min_inclusive |-> Absent,
           max_inclusive |-> i] : i \in {Absent, "True"}}

InitValidate ==
    \E v \in DOMAIN ListedValues, w \in DOMAIN Whitelists, b \in DOMAIN Blacklists,
       t \in ListedTypes, n \in {Absent, "True"}, e \in {Absent, "False"},
       bounds \in ListedBounds :
        Start("validate_value", <<ListedValues[v]>>,
              [types |-> t, whitelist |-> Whitelists[w], blacklist |-> Blacklists[b],
               none_ok |-> n, empty_ok |-> e, min_value |-> bounds.min_value,
               max_value |-> bounds.max_value, min_inclusive |-> bounds.min_inclusive,
               max_inclusive |-> bounds.max_inclusive])

NextValidate == ValidateValueCall

SpecValidate == InitValidate /\ [][NextValidate]_vars

\* ---------------------------------------------- properties: validate_value
\* validate_value has run with a whitelist, on a value of an expected type
\* that the blacklist does not name.
WhitelistChecked ==
    /\ op = "validate_value" /\ pc = "done"
    /\ kwargs.whitelist.kind # "none"
    /\ ~(Flag(kwargs.none_ok, FALSE) /\ objs[1].kind = "none")
    /\ IsInstance(objs[1], kwargs.types)
    /\ ~(kwargs.blacklist.kind # "none" /\ PyIn(objs[1], Listed(kwargs.blacklist)))

\* The whitelist entries whose type is the value's.
EntriesOfType == TypedWhitelist(objs[1], Listed(kwargs.whitelist))

\* The value equals a whitelist entry of its type.
EqualsEntry == PyIn(objs[1], EntriesOfType)

\* C20 as stated: with a whitelist, a correctly typed value is accepted by
\* the whitelist check only if it equals a whitelist entry of its type, and
\* a value that equals no such entry is rejected with ValueError.
C20_AsStated ==
    WhitelistChecked =>
        /\ res = Whitelisted => EqualsEntry
        /\ ~EqualsEntry => res.st = "ValueError"

\* C20: with a whitelist, a correctly typed value is accepted by the
\* whitelist check exactly if it equals a whitelist entry of its type; it is
\* rejected there with ValueError exactly if the whitelist has entries of its
\* type and it equals none; when the whitelist has no entry of its type the
\* check is passed over and the checks of emptiness and bounds decide.
C20_Whitelist ==
    WhitelistChecked =>
        /\ res = Whitelisted <=> EqualsEntry
        /\ res = Raise("ValueError", "validate_value: whitelist")
               <=> (EntriesOfType # <<>> /\ ~EqualsEntry)
        /\ EntriesOfType = <<>> => res = ValidateBounds(objs[1], kwargs)

\* validate_value(1, types=(str, int), whitelist=['a', 'b']) returned.
C20_Witness ==
    /\ WhitelistChecked
    /\ objs[1] = PyInt(1) /\ kwargs.whitelist = PyList(<<PyStr("a"), PyStr("b")>>)
    /\ kwargs.types = {"str", "int"}
    /\ res.st = "ok"

\* validate_value('b', types=str, whitelist='a') raised ValueError.
WhitelistRejected ==
    /\ WhitelistChecked
    /\ objs[1] = PyStr("b") /\ kwargs.whitelist = PyStr("a")
    /\ res = Raise("ValueError", "validate_value: whitelist")

\* validate_value(1, types=int, whitelist=[True]) was accepted by the
\* whitelist check: a bool entry is an int entry.
WhitelistedBool ==
    /\ WhitelistChecked
    /\ objs[1] = PyInt(1) /\ kwargs.whitelist = PyList(<<PyBool(TRUE)>>)
    /\ res = Whitelisted

\* ------------------------------------------- properties: keys passed as None
\* The value is None or was not passed.
Omitted(v) == v.kind \in {"absent", "none"}

\* A key value the validation accepts: a non-empty str or list.
ValidKey(v) == v.kind \in {"str", "list"} /\ v.items # <<>>

\* The parameters a call with the same keys, its None values left out, is
\* normalized to.
WithoutNone(kw) ==
    [kw EXCEPT !.on = IF @.kind = "none" THEN PyAbsent ELSE @,
               !.left_on = IF @.kind = "none" THEN PyAbsent ELSE @,
               !.right_on = IF @.kind = "none" THEN PyAbsent ELSE @]

\* C21: on, left_on or right_on passed as None is the parameter left out:
\* with 'on' a key and left_on and right_on None or omitted, or with 'on'
\* None or omitted and left_on and right_on keys, the call does not raise and
\* is normalized to the parameters of the call without the None values.
C21_NoneOmitted ==
    (/\ Prepped
     /\ \/ ValidKey(kwargs.on) /\ Omitted(kwargs.left_on) /\ Omitted(kwargs.right_on)
        \/ Omitted(kwargs.on) /\ ValidKey(kwargs.left_on) /\ ValidKey(kwargs.right_on))
        => /\ ~PrepRaised
           /\ PrepMergeParams(WithoutNone(kwargs), FALSE).st = "ok"
           /\ pc = "fold" => params = PrepMergeParams(WithoutNone(kwargs), FALSE).val

\* merge(objs, on='k', left_on=None, right_on=None) raised TypeError while it
\* prepared its parameters.
NoneRaised ==
    /\ Prepped /\ PrepRaised
    /\ kwargs.on = PyStr("k") /\ kwargs.left_on = PyNone /\ kwargs.right_on = PyNone
    /\ res.st = "TypeError"

\* The same holds of the calls that pass no None.
NoneNotPassed ==
    (/\ Prepped
     /\ PyNone \notin {kwargs.on, kwargs.left_on, kwargs.right_on}
     /\ \/ ValidKey(kwargs.on) /\ Omitted(kwargs.left_on) /\ Omitted(kwargs.right_on)
        \/ Omitted(kwargs.on) /\ ValidKey(kwargs.left_on) /\ ValidKey(kwargs.right_on))
        => ~PrepRaised

\* ------------------------------------------------ properties: rows kept
\* The row of the result carries the cells of the row of the leftmost
\* object, and its index labels where the index of the leftmost is named.
LeftCells(obj, row, kept) ==
    /\ SubSeq(kept.v, 1, Len(obj.cols)) = row.v
    /\ obj.idx # <<None>> => kept.ix = row.ix

\* A key-based merge with how='left' (passed or by default) and
\* right_dupes_ok=False has returned.
LeftMerged ==
    /\ op = "merge" /\ pc = "done" /\ res.st = "ok"
    /\ params.how = "left"
    /\ kwargs.right_dupes_ok = "False"

\* C22: a key-based merge with how='left' and right_dupes_ok=False returns
\* as many rows as the leftmost object has, whatever the number of objects
\* to its right: row r of the result carries the cells of row r of the
\* leftmost object.
C22_RowsKept ==
    LeftMerged =>
        /\ Len(res.val.rows) = Len(objs[1].rows)
        /\ \A r \in DOMAIN res.val.rows :
               LeftCells(objs[1], objs[1].rows[r], res.val.rows[r])

\* A left merge of three objects, the leftmost with a repeated key, returned
\* the rows of the leftmost.
C22_Witness ==
    /\ LeftMerged /\ Len(objs) = 3 /\ merged = 2
    /\ RepeatsKeys(objs[1], <<"k">>)
    /\ Len(res.val.rows) = Len(objs[1].rows)
    /\ Len(res.val.rows) > 1

\* ------------------------------------------- properties: anti-join folds
\* merge's loop over objs from pass n on (combine.py lines 207-252), as a
\* function: left is the result so far, p the parameters, tol the dupes_ok
\* dictionary.
RECURSIVE MergeLoop(_, _, _, _, _)
MergeLoop(os, n, left, p, tol) ==
    IF n = Len(os) THEN Ok(left)
    ELSE LET label == IF n = 0 THEN "left" ELSE "right"
             flag == IF n = 0 THEN p.left_dupes_ok ELSE p.right_dupes_ok
             tolerant == Tolerance(tol[label], flag, FALSE)
             popped == IF tol[label] # Absent THEN p
                       ELSE IF n = 0 THEN [p EXCEPT !.left_dupes_ok = Absent]
                       ELSE [p EXCEPT !.right_dupes_ok = Absent]
         IN  Then(FoldPass(left, os[n + 1], n, FALSE, popped,
                           IF n = 0 THEN p.left_on ELSE p.right_on, tolerant, FALSE),
                  LAMBDA d : MergeLoop(os, n + 1, d, popped,
                                       [tol EXCEPT ![label] = tolerant]))

\* merge(objs, **kwargs) as a function of its arguments
\* (combine.py lines 200-258).
Merge(os, kw) ==
    Then(PrepMergeParams(kw, FALSE), LAMBDA p :
    IF Len(os) = 0 THEN Raise("IndexError", "merge: objs[0]")
    ELSE
    Then(HasNamedIndex(os[1]), LAMBDA named :
    Then(GetIndexNames(os[1], TRUE, FALSE), LAMBDA names :
    Then(MergeLoop(os, 0, os[1], p, NoFlags), LAMBDA d :
    Then(IF named THEN SetIndex(d, names.names) ELSE Ok(d), LAMBDA restored :
    Then(VerifyIndexNames(<<restored>>, TRUE, names, TRUE), LAMBDA none :
         Ok(restored)))))))

\* The orders of the objects that keep the leftmost in its place.
Reordered(os) ==
    LET n == Len(os) - 1
        shuffles == {f \in [1..n -> 1..n] : \A i, j \in 1..n : f[i] = f[j] => i = j}
    IN  {<<os[1]>> \o [i \in 1..n |-> os[1 + f[i]]] : f \in shuffles}

\* The rows of A, index levels first, whose key is the key of no row of the
\* objects of Bs.
AntiRowsAll(A, Bs, keys) ==
    LET Labels(o) == IF o.idx = <<None>> THEN o.cols ELSE o.idx \o o.cols
        FlatRow(o, r) == IF o.idx = <<None>> THEN r.v ELSE r.ix \o r.v
        Key(o, r) == [i \in DOMAIN keys |-> FlatRow(o, r)[IndexOf(Labels(o), keys[i])]]
        taken == UNION {{Key(Bs[b], r) : r \in Range(Bs[b].rows)} : b \in DOMAIN Bs}
        kept == SelectSeq(A.rows, LAMBDA r : Key(A, r) \notin taken)
    IN  [i \in DOMAIN kept |-> FlatRow(A, kept[i])]

\* The cells of the rows of a table, with the labels of a named index.
RowCells(obj) ==
    [r \in DOMAIN obj.rows |->
        IF obj.idx = <<None>> THEN obj.rows[r].v ELSE obj.rows[r].ix \o obj.rows[r].v]

\* An anti-join on keys of the leftmost object with one or more objects to
\* its right, without indicator, has returned.
AntiFolded ==
    /\ op = "merge" /\ pc = "done" /\ res.st = "ok"
    /\ kwargs.how = "anti" /\ kwargs.on.kind # "absent"
    /\ ~Truthy(kwargs.indicator)
    /\ Len(objs) >= 2

\* C23 as stated: when merge([A, B1, ..., Bn], how='anti', on=k) returns, its
\* rows are the rows of A whose key occurs in none of B1..Bn, and the call
\* returns the same object for every order of B1..Bn, index labels included.
C23_AsStated ==
    AntiFolded =>
        /\ RowCells(res.val) = AntiRowsAll(objs[1], Tail(objs), kwargs.on.items)
        /\ \A os \in Reordered(objs) : Merge(os, kwargs) = res

\* C23: when merge([A, B1, ..., Bn], how='anti', on=k) returns, its rows
\* are, in order, the rows of A whose key occurs in none of B1..Bn, and for
\* every order of B1..Bn the call returns a table with the same columns,
\* the same index names and the same rows, cell by cell and, where A's
\* index is named, label by label; the labels of an unnamed index are left
\* out of the comparison.
C23_AntiFold ==
    AntiFolded =>
        /\ Merge(objs, kwargs) = res
        /\ RowCells(res.val) = AntiRowsAll(objs[1], Tail(objs), kwargs.on.items)
        /\ \A os \in Reordered(objs) :
               LET other == Merge(os, kwargs)
               IN  /\ other.st = "ok"
                   /\ other.val.cols = res.val.cols
                   /\ other.val.idx = res.val.idx
                   /\ RowCells(other.val) = RowCells(res.val)

\* An anti-join of A with two objects returned none of A's two rows: each
\* of the two objects holds the key of one of them.
C23_Witness ==
    /\ AntiFolded /\ Len(objs) = 3 /\ merged = 2
    /\ Len(objs[1].rows) = 2 /\ Len(res.val.rows) = 0
    /\ Len(objs[2].rows) = 1 /\ Len(objs[3].rows) = 1
    /\ objs[2].rows[1].v[1] # objs[3].rows[1].v[1]

\* The objects to the right in another order give the same rows under other
\* labels of the unnamed index.
AntiRelabelled ==
    /\ AntiFolded /\ objs[1].idx = <<None>>
    /\ \E os \in Reordered(objs) :
           /\ Merge(os, kwargs).st = "ok"
           /\ RowCells(Merge(os, kwargs).val) = RowCells(res.val)
           /\ Merge(os, kwargs).val.rows # res.val.rows

\* ------------------------------------- properties: unnamed leftmost index
\* A key-based merge whose leftmost object has an index without any name
\* has ended.
UnnamedMerged ==
    /\ op = "merge" /\ pc = "done"
    /\ Len(objs) >= 1
    /\ \A l \in DOMAIN objs[1].idx : objs[1].idx[l] = None

\* C24: a key-based merge whose leftmost object has an unnamed index, of one
\* level or of several, and whose objects pass every check of the loop,
\* returns: the comparison of the result's index names with the names
\* recorded from the leftmost object does not raise.
C24_UnnamedReturns ==
    UnnamedMerged => res.site # "verify_index_names: expected"

\* With one unnamed level the final comparison never raises.
UnnamedLevelReturns ==
    (UnnamedMerged /\ Len(objs[1].idx) = 1) => res.site # "verify_index_names: expected"

\* A merge of objects that passed every check of the loop raised at the
\* final comparison: the leftmost object has two unnamed index levels.
UnnamedLevelsRaised ==
    /\ UnnamedMerged /\ merged >= 1
    /\ objs[1].idx = <<None, None>>
    /\ res.st = "ValueError" /\ res.site = "verify_index_names: expected"

\* No key-based merge of two or more objects whose leftmost has several
\* unnamed index levels returns.
UnnamedLevelsNeverReturn ==
    (UnnamedMerged /\ Len(objs[1].idx) > 1 /\ Len(objs) > 1) => res.st # "ok"

\* ------------------------------------ properties: repeated column labels
\* verify_unique(column_names=False, index_names=True) has ended on a
\* DataFrame whose only defect is a repeated column label: no column label
\* is null, the index names are non-empty strings or None, distinct, and
\* none is a column label.
OnlyRepeatedLabel ==
    /\ op = "verify_unique" /\ pc = "done"
    /\ TypeOf(objs[1]) = "DataFrame"
    /\ kwargs.column_names = "False"
    /\ kwargs.index_names \in {Absent, "True"}
    /\ kwargs.column_values = Absent /\ kwargs.index_values = Absent
    /\ HasDupes(objs[1].cols)
    /\ None \notin Range(objs[1].cols)
    /\ Range(objs[1].idx) \cap (Range(Renumbered) \cup {""}) = {}
    /\ ~HasDupes(SelectSeq(objs[1].idx, LAMBDA n : n # None))
    /\ Range(objs[1].idx) \cap Range(objs[1].cols) = {}

\* C25: with column_names=False verify_unique does not raise on account of
\* a repeated column label: on an object whose only defect is a repeated
\* column label, verify_unique(column_names=False, index_names=True)
\* returns, whether the index is named or not.
C25_RepeatedLabelPasses ==
    OnlyRepeatedLabel => res.st = "ok"

\* On an unnamed index the call returns.
UnnamedRepeatedPasses ==
    (OnlyRepeatedLabel /\ \A l \in DOMAIN objs[1].idx : objs[1].idx[l] = None)
        => res.st = "ok"

\* On an index whose levels all have a name the call raises at the
\* comparison of the index names with the column labels.
NamedRepeatedRaises ==
    (OnlyRepeatedLabel /\ \A l \in DOMAIN objs[1].idx : objs[1].idx[l] # None)
        => /\ res.st = "ValueError"
           /\ res.site = "verify_unique: index and column names"

\* The call raised on columns a, a under the index named i.
RepeatedLabelRaised ==
    /\ OnlyRepeatedLabel
    /\ objs[1].cols = <<"a", "a">> /\ objs[1].idx = <<"i">>
    /\ res.st = "ValueError" /\ res.site = "verify_unique: index and column names"

\* ------------------------------------- properties: trim_na on sorted labels
\* trim_na with which='both' has returned rows, on data whose index labels
\* are not null and do not descend.
SortedTrimmed ==
    /\ TrimDone /\ res.st = "ok"
    /\ res.val.rows # <<>>
    /\ LET rows == CoerceSeries(objs[1]).val.rows
       IN  \A r \in 1..(Len(rows) - 1) : rows[r].ix[1] <= rows[r + 1].ix[1]

\* The rows are a run of consecutive rows of the data.
RunOf(rows, data) ==
    \E a \in DOMAIN data : \E b \in a..Len(data) : rows = SubSeq(data, a, b)

\* C26: on a sequence whose index is sorted, without null labels, possibly
\* with repeated labels, whenever trim_na with which='both' returns rows,
\* the first and the last of them hold values that are not null, and the
\* rows are a run of consecutive rows of the input.
C26_SortedTrimmed ==
    SortedTrimmed =>
        /\ res.val.rows[1].v[1] # NaN
        /\ res.val.rows[Len(res.val.rows)].v[1] # NaN
        /\ RunOf(res.val.rows, CoerceSeries(objs[1]).val.rows)

\* The rows returned are a run of consecutive rows of the input.
SortedRun ==
    SortedTrimmed => RunOf(res.val.rows, CoerceSeries(objs[1]).val.rows)

\* On sorted labels none of which repeats, the first and the last row
\* returned hold values that are not null.
SortedDistinctTrimmed ==
    (SortedTrimmed /\ ~HasDupes([r \in DOMAIN CoerceSeries(objs[1]).val.rows |->
                                    CoerceSeries(objs[1]).val.rows[r].ix]))
        => /\ res.val.rows[1].v[1] # NaN
           /\ res.val.rows[Len(res.val.rows)].v[1] # NaN

\* trim_na returned a first row that holds a null: it carries the label of
\* the first value that is not null.
SortedNullKept ==
    /\ SortedTrimmed /\ TypeOf(objs[1]) = "Series"
    /\ res.val.rows[1].v[1] = NaN
    /\ \E r \in DOMAIN res.val.rows :
           res.val.rows[r].v[1] # NaN /\ res.val.rows[r].ix = res.val.rows[1].ix

\* ============================================================ iter_window
\* A model of oddments/iteration/utils.py: iter_window.

Larger(x, y) == IF x >= y THEN x ELSE y
Smaller(x, y) == IF x <= y THEN x ELSE y

\* iterable[a : b + 1] for a >= 0 and b + 1 >= 0: positions count from 0.
PySlice(iterable, a, b) == SubSeq(iterable, a + 1, Smaller(b + 1, Len(iterable)))

\* a and b of the pass at index i (utils.py lines 159-162): n is
\* len(iterable) - 1, begun is start as the pass finds it.
WindowBounds(n, i, left, right, step, begun) ==
    [a |-> IF step /\ left > 0 /\ i = n THEN Larger(begun, 0) ELSE Larger(0, i - left),
     b |-> Smaller(n, i + right)]

\* The pass goes on to the next index without a yield (utils.py lines 163
\* and 166).
WindowSkipped(iterable, w, left, right, strict, step, begun) ==
    \/ step /\ w.a < begun
    \/ strict /\ Len(PySlice(iterable, w.a, w.b)) < left + right + 1

\* What the pass at index i yields (utils.py lines 165 and 168).
WindowYield(iterable, i, w, include_index) ==
    IF include_index THEN <<i, PySlice(iterable, w.a, w.b)>> ELSE PySlice(iterable, w.a, w.b)

\* The effect of one pass, given its bounds.
WindowPass(iterable, w, kw) ==
    /\ pos' = pos + 1
    /\ pc' = "loop"
    /\ IF WindowSkipped(iterable, w, kw.left, kw.right, Flag(kw.strict, FALSE),
                        Flag(kw.step, FALSE), start)
       THEN UNCHANGED <<start, yielded>>
       ELSE /\ start' = w.b + 1
            /\ yielded' = Append(yielded, WindowYield(iterable, pos, w,
                                                      Flag(kw.include_index, FALSE)))

\* One pass of the loop of iter_window (utils.py lines 158-168).
IterWindowStep ==
    /\ op = "iter_window"
    /\ pc \in {"call", "loop"}
    /\ pos < Len(objs[1])
    /\ WindowPass(objs[1],
                  WindowBounds(Len(objs[1]) - 1, pos, kwargs.left, kwargs.right,
                               Flag(kwargs.step, FALSE), start),
                  kwargs)
    /\ UNCHANGED <<op, objs, kwargs, params, restore_index, index_names, dupes_ok, df,
                   merged, res, heap>>

\* The generator is exhausted: the call returns what was yielded.
IterWindowEnd ==
    /\ op = "iter_window"
    /\ pc \in {"call", "loop"}
    /\ pos = Len(objs[1])
    /\ Finish(Ok(yielded))
    /\ UNCHANGED <<op, objs, kwargs, locals, heap>>

\* ------------------------------------------------- inputs: iter_window
\* The lists handed to iter_window: 1, 2, ..., up to MaxLen elements.
WindowLists == {[i \in 1..n |-> i] : n \in 0..MaxLen}

WindowKw ==
    [left : 0..MaxWindow, right : 0..MaxWindow, strict : {Absent, "True"},
     step : {Absent, "True"}, include_index : {Absent, "True"}]

InitWindow == \E x \in WindowLists, kw \in WindowKw : Start("iter_window", <<x>>, kw)

NextWindow == IterWindowStep \/ IterWindowEnd

SpecWindow == InitWindow /\ [][NextWindow]_vars

\* ------------------------------------------------ properties: iter_window
\* The slices yielded so far, without their indices.
Slices ==
    [y \in DOMAIN yielded |->
        IF Flag(kwargs.include_index, FALSE) THEN yielded[y][2] ELSE yielded[y]]

RECURSIVE Concat(_)
Concat(seqs) == IF seqs = <<>> THEN <<>> ELSE Head(seqs) \o Concat(Tail(seqs))

\* iter_window with step=True and strict=False is running or has ended.
Stepping ==
    /\ op = "iter_window"
    /\ kwargs.step = "True" /\ kwargs.strict = Absent

\* C27: with step=True and strict=False the slices iter_window yields
\* partition the input, for every left >= 0 and right >= 0: every slice
\* yielded is non-empty, no element is in two of them, and when the
\* generator is exhausted the slices in their order make up the input.
C27_Partition ==
    Stepping =>
        /\ \A y \in DOMAIN Slices : Slices[y] # <<>>
        /\ \A y, z \in DOMAIN Slices : y # z => Range(Slices[y]) \cap Range(Slices[z]) = {}
        /\ pc = "done" => Concat(Slices) = objs[1]

\* The slices yielded overlap nowhere and, at the end, make up the input in
\* its order.
WindowCover ==
    Stepping =>
        /\ \A y, z \in DOMAIN Slices : y # z => Range(Slices[y]) \cap Range(Slices[z]) = {}
        /\ pc = "done" => Concat(Slices) = objs[1]

\* Every slice but the last is non-empty, and with left = 0 the last is too.
WindowLastEmpty ==
    Stepping =>
        /\ \A y \in DOMAIN Slices : Slices[y] = <<>> => y = Len(Slices) /\ pos = Len(objs[1])
        /\ kwargs.left = 0 => \A y \in DOMAIN Slices : Slices[y] # <<>>

\* iter_window([1, 2], left=1, right=1, step=True) has yielded [1, 2] and
\* then an empty slice.
WindowEmptyYielded ==
    /\ Stepping /\ pc = "done"
    /\ objs[1] = <<1, 2>> /\ kwargs.left = 1 /\ kwargs.right = 1
    /\ kwargs.include_index = Absent
    /\ res.val = <<<<1, 2>>, <<>>>>

\* iter_window([1, 2, 3, 4, 5], right=2, step=True) has yielded [1, 2, 3]
\* and [4, 5].
WindowExample ==
    /\ Stepping /\ pc = "done"
    /\ objs[1] = <<1, 2, 3, 4, 5>> /\ kwargs.left = 0 /\ kwargs.right = 2
    /\ kwargs.include_index = Absent
    /\ res.val = <<<<1, 2, 3>>, <<4, 5>>>>

====
